---------------------------- MODULE Spec2Model ----------------------------
(***************************************************************************)
(* A model of rx, a terminal file browser: the directory listing, the      *)
(* prompt/mode controller, the two-step delete, the undo/redo journal with *)
(* its file and directory backups, and the viewport.  The repository holds *)
(* two copies of the input handling: InputHandler over AppState            *)
(* (input.rs, state.rs, ui/mod.rs) and FileExplorer (explorer.rs).  Both   *)
(* are modelled; the variable impl says which one the run is of.           *)
(*                                                                         *)
(* Indices (selected, viewport_start, positions) are 0-based as in the     *)
(* code; At(seq, i) reads element i of a Rust Vec.  An Option is a set     *)
(* with at most one element.  A name is a sequence of characters, a path   *)
(* the sequence of its components from the filesystem root.                *)
(***************************************************************************)
EXTENDS Integers, Sequences, FiniteSets, TLC

VARIABLES
    impl,            \* "input" (InputHandler/AppState/Renderer) or "explorer" (FileExplorer)
    running,         \* FALSE once the event loop has returned (quit, or an error in run_loop)
    fs,              \* the filesystem: path -> [is_dir, data]
    term_height,     \* terminal::size_of_terminal().1
    current_path,
    entries,
    selected,
    delete_mode,
    history,
    history_index,
    prompt,          \* [mode, query, matches, current_match]
    viewport_start,
    viewport_size,
    modules_cache,
    max_widths,
    typable,         \* the names the user types into a prompt in this run
    faults,          \* the failures the filesystem may answer with in this run
    last             \* the event handled last and what its handler returned

vars == <<impl, running, fs, term_height, current_path, entries, selected,
          delete_mode, history, history_index, prompt, viewport_start,
          viewport_size, modules_cache, max_widths, typable, faults, last>>

----------------------------------------------------------------------------
(* Bounds of the model *)

\* the longest history a record may produce
MaxHist == 2

----------------------------------------------------------------------------
(* Option, Vec *)

None == {}

Some(x) == {x}

Unwrap(o) == CHOOSE x \in o : TRUE

At(seq, i) == seq[i + 1]

Last(seq) == seq[Len(seq)]

Min(a, b) == IF a < b THEN a ELSE b

Max(a, b) == IF a < b THEN b ELSE a

\* usize subtraction that stops at 0
SaturatingSub(a, b) == IF a < b THEN 0 ELSE a - b

\* Vec::remove(i)
Remove(seq, i) == SubSeq(seq, 1, i) \o SubSeq(seq, i + 2, Len(seq))

\* Vec::truncate(n)
Truncate(seq, n) == SubSeq(seq, 1, Min(n, Len(seq)))

----------------------------------------------------------------------------
(* Characters and names *)

\* the names a user may type into a prompt, one character at a time: "B/"
\* (a directory that exists at the start), "b" (a new name, equal to "B"
\* but for its case), "B/B" (a name below a directory) and "b/B/" (a
\* directory below a directory that is missing at the start)
Typable == {<<"B", "/">>, <<"b">>, <<"B", "/", "B">>, <<"b", "/", "B", "/">>}

\* the queries on the way to the names of t (and, after Backspace, what is
\* left of a prefilled name)
TypablePrefixes(t) == UNION {{SubSeq(q, 1, n) : n \in 1..Len(q)} : q \in t}

\* the characters a key event carries into a prompt
TypedChars == {"B", "/", "b"}

CharCode(c) ==
    CASE c = "." -> 46
      [] c = "/" -> 47
      [] c = "B" -> 66
      [] c = "a" -> 97
      [] c = "b" -> 98

\* char::to_lowercase
ToLowerChar(c) == IF c = "B" THEN "b" ELSE c

\* str::to_lowercase
ToLower(str) == [i \in 1..Len(str) |-> ToLowerChar(str[i])]

\* the order of str and String: lexicographic by bytes
RECURSIVE StrLess(_, _)
StrLess(x, y) ==
    IF y = <<>> THEN FALSE
    ELSE IF x = <<>> THEN TRUE
    ELSE IF CharCode(x[1]) # CharCode(y[1]) THEN CharCode(x[1]) < CharCode(y[1])
    ELSE StrLess(Tail(x), Tail(y))

\* str::contains
Contains(hay, needle) ==
    \E i \in 0..(Len(hay) - Len(needle)) :
        SubSeq(hay, i + 1, i + Len(needle)) = needle

\* str::ends_with('/')
EndsWithSlash(str) == str # <<>> /\ Last(str) = "/"

----------------------------------------------------------------------------
(* Paths *)

Root == <<>>

DotDot == <<".", ".">>

\* the components of a typed string: split at '/', empty components dropped
RECURSIVE Components(_)
Components(str) ==
    IF str = <<>> THEN <<>>
    ELSE IF str[1] = "/" THEN Components(Tail(str))
    ELSE LET n == IF \E i \in 1..Len(str) : str[i] = "/"
                  THEN (CHOOSE i \in 1..Len(str) :
                            /\ str[i] = "/"
                            /\ \A j \in 1..(i - 1) : str[j] # "/") - 1
                  ELSE Len(str)
         IN  <<SubSeq(str, 1, n)>> \o Components(SubSeq(str, n + 1, Len(str)))

\* Path::join: an absolute argument replaces the base
PathJoin(base, str) ==
    IF str # <<>> /\ str[1] = "/" THEN Components(str) ELSE base \o Components(str)

\* Path::parent, where it is Some
Parent(p) == SubSeq(p, 1, Len(p) - 1)

\* Path::file_name().unwrap_or_default(): nothing for the root and for ".."
FileName(p) == IF p = Root \/ Last(p) = DotDot THEN <<>> ELSE Last(p)

IsPrefix(p, q) == Len(p) <= Len(q) /\ SubSeq(q, 1, Len(p)) = p

\* Path::strip_prefix
StripPrefix(base, p) == SubSeq(p, Len(base) + 1, Len(p))

Prefixes(p) == {SubSeq(p, 1, n) : n \in 0..Len(p)}

----------------------------------------------------------------------------
(* The filesystem: what the std::fs calls of file_ops.rs and history.rs do *)

Dir == [is_dir |-> TRUE, data |-> ""]

File(d) == [is_dir |-> FALSE, data |-> d]

\* what the kernel resolves a path to: a trailing ".." names the parent of
\* the directory before it (the root is its own parent)
Resolve(p) ==
    IF p # Root /\ Last(p) = DotDot
    THEN (IF Len(p) = 1 THEN Root ELSE Parent(Parent(p)))
    ELSE p

\* whether the path can be walked: every directory on the way exists
Reachable(f, p) ==
    IF p # Root /\ Last(p) = DotDot
    THEN Parent(p) \in DOMAIN f /\ f[Parent(p)].is_dir
    ELSE p \in DOMAIN f

\* Path::exists
Exists(f, p) == Reachable(f, p)

\* Path::is_dir
IsDir(f, p) == Reachable(f, p) /\ f[Resolve(p)].is_dir

Children(f, p) == {q \in DOMAIN f : Len(q) = Len(p) + 1 /\ IsPrefix(p, q)}

Subtree(f, p) == {q \in DOMAIN f : IsPrefix(p, q)}

Restrict(f, S) == [q \in S |-> f[q]]

Put(f, p, node) == [q \in DOMAIN f \cup {p} |-> IF q = p THEN node ELSE f[q]]

FsOk(f) == [ok |-> TRUE, fs |-> f]

FsErr(f) == [ok |-> FALSE, fs |-> f]

\* fs::remove_file
RemoveFile(f, p, env) ==
    IF env.fail = "write" \/ p \notin DOMAIN f \/ f[p].is_dir
    THEN FsErr(f)
    ELSE FsOk(Restrict(f, DOMAIN f \ {p}))

\* fs::remove_dir_all: the root itself cannot be removed, its content can
RemoveDirAll(f, p, env) ==
    IF env.fail = "write" \/ ~Reachable(f, p) \/ ~f[Resolve(p)].is_dir
    THEN FsErr(f)
    ELSE LET t == Resolve(p)
         IN  IF t = Root
             THEN FsErr(Restrict(f, {Root}))
             ELSE FsOk(Restrict(f, DOMAIN f \ Subtree(f, t)))

\* fs::create_dir_all: a directory that is already there is no error
CreateDirAll(f, p, env) ==
    IF \/ \E q \in Prefixes(p) : q \in DOMAIN f /\ ~f[q].is_dir
       \/ (env.fail = "write" /\ \E q \in Prefixes(p) : q \notin DOMAIN f)
    THEN FsErr(f)
    ELSE FsOk([q \in DOMAIN f \cup Prefixes(p) |->
                   IF q \in DOMAIN f THEN f[q] ELSE Dir])

\* fs::File::create and fs::write: create or truncate, then write
WriteFile(f, p, d, env) ==
    IF \/ env.fail = "write"
       \/ p = Root
       \/ Parent(p) \notin DOMAIN f
       \/ ~f[Parent(p)].is_dir
       \/ (p \in DOMAIN f /\ f[p].is_dir)
    THEN FsErr(f)
    ELSE FsOk(Put(f, p, File(d)))

\* fs::rename(from, to); to_slash: the target string ends with '/'
Rename(f, from, to, to_slash, env) ==
    IF \/ env.fail = "write"
       \/ from = Root \/ Last(from) = DotDot
       \/ to = Root \/ Last(to) = DotDot
       \/ from \notin DOMAIN f
       \/ Parent(to) \notin DOMAIN f
       \/ ~f[Parent(to)].is_dir
       \/ (to_slash /\ ~f[from].is_dir)
    THEN FsErr(f)
    ELSE IF from = to THEN FsOk(f)
    ELSE IF \/ IsPrefix(from, to)
            \/ (to \in DOMAIN f /\ f[to].is_dir # f[from].is_dir)
            \/ (to \in DOMAIN f /\ f[to].is_dir /\ Children(f, to) # {})
    THEN FsErr(f)
    ELSE LET moved == {to \o StripPrefix(from, q) : q \in Subtree(f, from)}
             kept  == DOMAIN f \ (Subtree(f, from) \cup {to})
         IN  FsOk([q \in kept \cup moved |->
                      IF q \in moved
                      THEN f[from \o StripPrefix(to, q)]
                      ELSE f[q]])

----------------------------------------------------------------------------
(* What the environment decides for one event: which kind of system call   *)
(* fails (none, a read of file bytes, a directory listing, a mutation,     *)
(* a chdir, the spawn of the editor), and the order read_dir yields names *)
(* in (by bytes, ascending or descending).                                 *)

Fails == {"none", "read", "list", "write", "chdir", "spawn"}

Envs == [fail : Fails, rev : BOOLEAN]

NoFail == [fail |-> "none", rev |-> FALSE]

----------------------------------------------------------------------------
(* history.rs *)

OpDelete(path, is_dir, content, position, dir_backup) ==
    [tag |-> "Delete", path |-> path, is_dir |-> is_dir, content |-> content,
     position |-> position, dir_backup |-> dir_backup]

OpCreate(path, is_dir) == [tag |-> "Create", path |-> path, is_dir |-> is_dir]

OpRename(old_path, new_path) ==
    [tag |-> "Rename", old_path |-> old_path, new_path |-> new_path]

DirBackup(files, dirs) == [files |-> files, dirs |-> dirs]

\* backup_dir: every file below path with its bytes, every directory below
\* path, both by their path relative to it
backup_dir(f, path, env) ==
    LET below == Subtree(f, path) \ {path}
        fl    == {q \in below : ~f[q].is_dir}
        dr    == {q \in below : f[q].is_dir}
    IN  IF env.fail = "list" \/ (env.fail = "read" /\ fl # {})
        THEN [ok |-> FALSE, backup |-> DirBackup(<<>>, {})]
        ELSE [ok |-> TRUE,
              backup |-> DirBackup(
                  [r \in {StripPrefix(path, q) : q \in fl} |-> f[path \o r].data],
                  {StripPrefix(path, q) : q \in dr})]

----------------------------------------------------------------------------
(* file_ops.rs *)

\* a sort key that keeps the case of the name: the fault that C25 excludes
SortKey_cased(p) == FileName(p)

\* the sort key of read_dir_entries
SortKey(p) == ToLower(FileName(p))

\* the order of a stable sort by the keys kp and kq over what read_dir
\* yielded: equal keys keep the order read_dir gave them
KeyBefore(kp, kq, p, q, env) ==
    \/ StrLess(kp, kq)
    \/ /\ kp = kq
       /\ StrLess(IF env.rev THEN Last(q) ELSE Last(p),
                  IF env.rev THEN Last(p) ELSE Last(q))

ListedBefore(p, q, env) == KeyBefore(SortKey(p), SortKey(q), p, q, env)

RECURSIVE SortListing(_, _)
SortFrom(S, m, env) == <<m>> \o SortListing(S \ {m}, env)

\* Vec::sort_by_key
SortListing(S, env) ==
    IF S = {} THEN <<>>
    ELSE SortFrom(S, CHOOSE x \in S : \A y \in S \ {x} : ListedBefore(x, y, env), env)

\* the entries of read_dir_entries: "..", the directories, the files
Listing(f, path, kids, env) ==
    <<path \o <<DotDot>>>> \o SortListing({q \in kids : f[q].is_dir}, env)
        \o SortListing({q \in kids : ~f[q].is_dir}, env)

read_dir_entries(f, path, env) ==
    IF env.fail = "list" \/ ~IsDir(f, path)
    THEN [ok |-> FALSE, entries |-> <<>>]
    ELSE [ok |-> TRUE, entries |-> Listing(f, path, Children(f, path), env)]

delete_path(f, path, is_dir, env) ==
    IF is_dir THEN RemoveDirAll(f, path, env) ELSE RemoveFile(f, path, env)

\* a write that follows a create_dir_all(parent)?
WriteInto(made, path, d, env) ==
    IF ~made.ok THEN made ELSE WriteFile(made.fs, path, d, env)

\* the parent is created where it is missing, then the bytes are written
WriteWithParent(f, path, d, env) ==
    IF path # Root /\ ~Exists(f, Parent(path))
    THEN WriteInto(CreateDirAll(f, Parent(path), env), path, d, env)
    ELSE WriteFile(f, path, d, env)

create_file(f, path, env) == WriteWithParent(f, path, "", env)

create_directory(f, path, env) == CreateDirAll(f, path, env)

\* Operation::Delete of prepare_delete_operation, or the error of backup_dir
DeleteOf(path, is_dir, content, position, bak) ==
    IF is_dir /\ ~bak.ok
    THEN [ok |-> FALSE, op |-> OpCreate(path, is_dir)]
    ELSE [ok |-> TRUE,
          op |-> OpDelete(path, is_dir, content, position,
                          IF is_dir THEN Some(bak.backup) ELSE None)]

\* fs::read(path).ok()
ReadOk(f, path, env) ==
    IF env.fail # "read" /\ path \in DOMAIN f /\ ~f[path].is_dir
    THEN Some(f[path].data)
    ELSE None

prepare_delete_operation(f, path, position, env) ==
    DeleteOf(path, IsDir(f, path),
             IF IsDir(f, path) THEN None ELSE ReadOk(f, path, env),
             position, backup_dir(f, path, env))

\* the loop over backup.files: the parent directories, then the bytes
RECURSIVE RestoreFiles(_, _, _, _, _)
RestoreNext(put, path, files, rest, env) ==
    IF ~put.ok THEN put ELSE RestoreFiles(put.fs, path, files, rest, env)

RestoreFiles(f, path, files, todo, env) ==
    IF todo = {} THEN FsOk(f)
    ELSE LET r == CHOOSE x \in todo : TRUE
         IN  RestoreNext(
                 WriteInto(CreateDirAll(f, Parent(path \o r), env),
                           path \o r, files[r], env),
                 path, files, todo \ {r}, env)

\* the loop over backup.dirs
RECURSIVE RestoreDirs(_, _, _, _)
RestoreDir(made, path, rest, env) ==
    IF ~made.ok THEN made ELSE RestoreDirs(made.fs, path, rest, env)

RestoreDirs(f, path, todo, env) ==
    IF todo = {} THEN FsOk(f)
    ELSE LET r == CHOOSE x \in todo : TRUE
         IN  RestoreDir(CreateDirAll(f, path \o r, env), path, todo \ {r}, env)

\* the two loops, once the files are back
RestoreAllDirs(put, path, dirs, env) ==
    IF ~put.ok THEN put ELSE RestoreDirs(put.fs, path, dirs, env)

\* what follows create_dir_all(path)? for a directory
RestoreBackup(made, path, dir_backup, env) ==
    IF ~made.ok \/ dir_backup = None THEN made
    ELSE RestoreAllDirs(
             RestoreFiles(made.fs, path, Unwrap(dir_backup).files,
                          DOMAIN Unwrap(dir_backup).files, env),
             path, Unwrap(dir_backup).dirs, env)

restore_deleted_path(f, path, is_dir, content, dir_backup, env) ==
    IF is_dir THEN RestoreBackup(CreateDirAll(f, path, env), path, dir_backup, env)
    ELSE IF content # None THEN WriteWithParent(f, path, Unwrap(content), env)
    ELSE FsOk(f)

rename_path(f, old_path, new_path, to_slash, env) ==
    Rename(f, old_path, new_path, to_slash, env)

----------------------------------------------------------------------------
(* modes.rs, prompt.rs *)

Modes == {"Normal", "Search", "Create", "Rename"}

\* the characters handle_prompt_input passes for Enter ('\n') and
\* Backspace ('\x7f')
NL == "NL"

DEL == "DEL"

ActSelect(index) == [tag |-> "Select", index |-> index]

ActCreateEntry(op) == [tag |-> "CreateEntry", op |-> op]

ActRenameEntry(op) == [tag |-> "RenameEntry", op |-> op]

ActExit == [tag |-> "Exit"]

\* Prompt::new
Prompt_new == [mode |-> "Normal", query |-> <<>>, matches |-> <<>>, current_match |-> 0]

\* a set_mode that keeps the query: the fault that C18 excludes
set_mode_keeping(p, mode) ==
    [mode |-> mode, query |-> p.query, matches |-> <<>>, current_match |-> 0]

\* Prompt::set_mode
set_mode(p, mode) ==
    [mode |-> mode, query |-> <<>>, matches |-> <<>>, current_match |-> 0]

\* Prompt::set_mode_with_text
set_mode_with_text(p, mode, text) ==
    [mode |-> mode, query |-> text, matches |-> <<>>, current_match |-> 0]

\* Prompt::is_active
is_active(p) == p.mode # "Normal"

\* String::pop
Pop(str) == IF str = <<>> THEN str ELSE SubSeq(str, 1, Len(str) - 1)

\* the filter_map of update_matches over entries.iter().skip(1).enumerate(),
\* from position i of the skipped iterator on
RECURSIVE MatchesFrom(_, _, _)
MatchesFrom(ents, query, i) ==
    IF i + 1 >= Len(ents) THEN <<>>
    ELSE LET name == ToLower(FileName(At(ents, i + 1)))
         IN  (IF Contains(name, ToLower(query)) THEN <<i + 1>> ELSE <<>>)
                 \o MatchesFrom(ents, query, i + 1)

\* Prompt::update_matches
update_matches(p, ents) == [p EXCEPT !.matches = MatchesFrom(ents, p.query, 0)]

\* a next_match that stops at the last match instead of wrapping around:
\* the fault that C15 excludes
next_match_stopping(p) ==
    IF p.matches = <<>>
    THEN [prompt |-> p, index |-> None]
    ELSE LET c == Min(p.current_match + 1, Len(p.matches) - 1)
         IN  [prompt |-> [p EXCEPT !.current_match = c],
              index  |-> Some(At(p.matches, c))]

\* Prompt::next_match: the prompt after it and the index it returns
next_match(p) ==
    IF p.matches = <<>>
    THEN [prompt |-> p, index |-> None]
    ELSE LET c == (p.current_match + 1) % Len(p.matches)
         IN  [prompt |-> [p EXCEPT !.current_match = c],
              index  |-> Some(At(p.matches, c))]

\* what a Prompt method returns: the prompt and the filesystem after it,
\* Ok or Err, and the ModeAction if there is one
PromptRet(p, f, res, action) == [prompt |-> p, fs |-> f, res |-> res, action |-> action]

\* a handle_search whose Enter selects the last match instead of the one
\* under the cursor: the fault that C14 excludes
handle_search_last(p, f, input, ents) ==
    IF input = NL
    THEN IF p.matches # <<>>
         THEN PromptRet([p EXCEPT !.mode = "Normal"], f, "Ok",
                        Some(ActSelect(At(p.matches, Len(p.matches) - 1))))
         ELSE PromptRet([p EXCEPT !.mode = "Normal"], f, "Ok", Some(ActExit))
    ELSE IF input = DEL
    THEN PromptRet(update_matches([p EXCEPT !.query = Pop(p.query)], ents), f, "Ok", None)
    ELSE PromptRet(update_matches([p EXCEPT !.query = Append(p.query, input)], ents),
                   f, "Ok", None)

\* Prompt::handle_search
handle_search(p, f, input, ents) ==
    IF input = NL
    THEN IF p.matches # <<>>
         THEN PromptRet([p EXCEPT !.mode = "Normal"], f, "Ok",
                        Some(ActSelect(At(p.matches, p.current_match))))
         ELSE PromptRet([p EXCEPT !.mode = "Normal"], f, "Ok", Some(ActExit))
    ELSE IF input = DEL
    THEN PromptRet(update_matches([p EXCEPT !.query = Pop(p.query)], ents), f, "Ok", None)
    ELSE PromptRet(update_matches([p EXCEPT !.query = Append(p.query, input)], ents),
                   f, "Ok", None)

\* a handle_create that records every entry as a file: the fault that C16
\* excludes
Created_as_file(p, made, path, is_dir) ==
    IF ~made.ok
    THEN PromptRet(p, made.fs, "Err", None)
    ELSE PromptRet([p EXCEPT !.mode = "Normal"], made.fs, "Ok",
                   Some(ActCreateEntry(OpCreate(path, FALSE))))

\* handle_create once the entry is made, or is not
Created(p, made, path, is_dir) ==
    IF ~made.ok
    THEN PromptRet(p, made.fs, "Err", None)
    ELSE PromptRet([p EXCEPT !.mode = "Normal"], made.fs, "Ok",
                   Some(ActCreateEntry(OpCreate(path, is_dir))))

\* handle_create for the joined path: a directory if the query ends with '/'
CreateAt(p, f, path, is_dir, env) ==
    Created(p,
            IF is_dir THEN create_directory(f, path, env) ELSE create_file(f, path, env),
            path, is_dir)

\* Prompt::handle_create
handle_create(p, f, input, cur, env) ==
    IF input = NL
    THEN IF p.query = <<>>
         THEN PromptRet([p EXCEPT !.mode = "Normal"], f, "Ok", Some(ActExit))
         ELSE CreateAt(p, f, PathJoin(cur, p.query), EndsWithSlash(p.query), env)
    ELSE IF input = DEL
    THEN PromptRet([p EXCEPT !.query = Pop(p.query)], f, "Ok", None)
    ELSE PromptRet([p EXCEPT !.query = Append(p.query, input)], f, "Ok", None)

\* a handle_rename without the test selected_path != new_path: the fault
\* that C17 excludes
Renamed_always(p, moved, selected_path, new_path) ==
    IF ~moved.ok
    THEN PromptRet(p, moved.fs, "Err", None)
    ELSE PromptRet([p EXCEPT !.mode = "Normal"], moved.fs, "Ok",
                   Some(ActRenameEntry(OpRename(selected_path, new_path))))

\* handle_rename once the entry is renamed, or is not
Renamed(p, moved, selected_path, new_path) ==
    IF ~moved.ok
    THEN PromptRet(p, moved.fs, "Err", None)
    ELSE IF selected_path # new_path
    THEN PromptRet([p EXCEPT !.mode = "Normal"], moved.fs, "Ok",
                   Some(ActRenameEntry(OpRename(selected_path, new_path))))
    ELSE PromptRet([p EXCEPT !.mode = "Normal"], moved.fs, "Ok", Some(ActExit))

\* handle_rename for the joined path
RenameTo(p, f, selected_path, new_path, env) ==
    Renamed(p, rename_path(f, selected_path, new_path, EndsWithSlash(p.query), env),
            selected_path, new_path)

\* Prompt::handle_rename
handle_rename(p, f, input, selected_path, env) ==
    IF input = NL
    THEN IF p.query = <<>>
         THEN PromptRet([p EXCEPT !.mode = "Normal"], f, "Ok", Some(ActExit))
         ELSE RenameTo(p, f, selected_path,
                       PathJoin(Parent(selected_path), p.query), env)
    ELSE IF input = DEL
    THEN PromptRet([p EXCEPT !.query = Pop(p.query)], f, "Ok", None)
    ELSE PromptRet([p EXCEPT !.query = Append(p.query, input)], f, "Ok", None)

\* Prompt::handle_input; selected_path is the Option entries.get(selected)
handle_input(p, f, input, ents, cur, selected_path, env) ==
    CASE p.mode = "Search" ->
            handle_search(IF input = NL THEN update_matches(p, ents) ELSE p,
                          f, input, ents)
      [] p.mode = "Create" -> handle_create(p, f, input, cur, env)
      [] p.mode = "Rename" ->
            IF selected_path # None
            THEN handle_rename(p, f, input, Unwrap(selected_path), env)
            ELSE PromptRet(p, f, "Ok", Some(ActExit))
      [] p.mode = "Normal" -> PromptRet(p, f, "Ok", None)

----------------------------------------------------------------------------
(* The application state as one value s, and what a handler returns: the   *)
(* state it leaves, and Ok, Err (an error returned by ?), Quit (Ok with    *)
(* the path to report) or Panic.                                           *)

State ==
    [fs |-> fs, term_height |-> term_height, current_path |-> current_path,
     entries |-> entries, selected |-> selected, delete_mode |-> delete_mode,
     history |-> history, history_index |-> history_index, prompt |-> prompt,
     viewport_start |-> viewport_start, viewport_size |-> viewport_size,
     modules_cache |-> modules_cache, max_widths |-> max_widths,
     recomputed |-> FALSE]

Ok(s) == [s |-> s, res |-> "Ok"]

Err(s) == [s |-> s, res |-> "Err"]

Quit(s) == [s |-> s, res |-> "Quit"]

Panic(s) == [s |-> s, res |-> "Panic"]

----------------------------------------------------------------------------
(* state.rs (and the same two methods of FileExplorer) *)

\* the display modules of the configuration: the name column (lua/mod.rs, get_name)
DisplayModules == <<"name">>

\* AppState::get_display_name
get_display_name(f, entry, index) ==
    IF index = 0 THEN <<".", ".", "/">>
    ELSE IF IsDir(f, entry) THEN Append(FileName(entry), "/")
    ELSE FileName(entry)

\* AppState::recompute_display_data: one row per entry, one fragment per
\* module, and per module the width of its longest fragment below the parent
\* entry; recomputed records that the handler of this event made the call
recompute_display_data(s) ==
    LET rows == [i \in 1..Len(s.entries) |->
                    [m \in 1..Len(DisplayModules) |->
                        get_display_name(s.fs, s.entries[i], i - 1)]]
        width(m) == IF Len(rows) <= 1 THEN 0
                    ELSE CHOOSE w \in {Len(rows[i][m]) : i \in 2..Len(rows)} :
                             \A i \in 2..Len(rows) : Len(rows[i][m]) <= w
    IN  [s EXCEPT !.modules_cache = rows,
                  !.max_widths = [m \in 1..Len(DisplayModules) |-> width(m)],
                  !.recomputed = TRUE]

----------------------------------------------------------------------------
(* ui/mod.rs: the Renderer's viewport *)

\* an update_viewport that follows the selection one row late, > for >=:
\* the fault that C24 excludes
Renderer_update_viewport_late(s, sel, total_entries) ==
    LET size   == s.term_height - 2
        start1 == IF sel > s.viewport_start + size THEN sel - size + 1
                  ELSE IF sel < s.viewport_start THEN sel
                  ELSE s.viewport_start
        start2 == IF start1 > SaturatingSub(total_entries, size)
                  THEN SaturatingSub(total_entries, size)
                  ELSE start1
    IN  [s EXCEPT !.viewport_size = size, !.viewport_start = start2]

\* Renderer::update_viewport
Renderer_update_viewport(s, sel, total_entries) ==
    LET size   == s.term_height - 2
        start1 == IF sel >= s.viewport_start + size THEN sel - size + 1
                  ELSE IF sel < s.viewport_start THEN sel
                  ELSE s.viewport_start
        start2 == IF start1 > SaturatingSub(total_entries, size)
                  THEN SaturatingSub(total_entries, size)
                  ELSE start1
    IN  [s EXCEPT !.viewport_size = size, !.viewport_start = start2]

\* Renderer::reset_viewport
Renderer_reset_viewport(s) == [s EXCEPT !.viewport_start = 0]

\* Renderer::scroll_up
Renderer_scroll_up(s) ==
    IF s.viewport_start > 0
    THEN [s EXCEPT !.viewport_start = SaturatingSub(s.viewport_start, 1)]
    ELSE s

\* a scroll_down that stops only at the last entry, not at the last full
\* window: the fault that C30 excludes
Renderer_scroll_down_far(s, total_entries) ==
    IF s.viewport_start < SaturatingSub(total_entries, 1)
    THEN [s EXCEPT !.viewport_start = s.viewport_start + 1]
    ELSE s

\* Renderer::scroll_down
Renderer_scroll_down(s, total_entries) ==
    IF s.viewport_start < SaturatingSub(total_entries, s.viewport_size)
    THEN [s EXCEPT !.viewport_start = s.viewport_start + 1]
    ELSE s

----------------------------------------------------------------------------
(* input.rs: InputHandler *)

\* Vec::push of a new operation and history_index += 1
Push(s, op) ==
    [s EXCEPT !.history = Append(s.history, op),
              !.history_index = s.history_index + 1]

\* state.entries = read_dir_entries(&state.current_path)?, then
\* recompute_display_data
Listed(s, listed) ==
    IF ~listed.ok THEN Err(s)
    ELSE Ok(recompute_display_data([s EXCEPT !.entries = listed.entries]))

Relist(s, env) == Listed(s, read_dir_entries(s.fs, s.current_path, env))

\* the same for a created entry: the selection goes to the last entry
InputHandler_CreateListed(s, listed) ==
    IF ~listed.ok THEN Err(s)
    ELSE Ok(recompute_display_data(
            [s EXCEPT !.entries = listed.entries,
                      !.selected = Len(listed.entries) - 1]))

\* InputHandler::handle_mode_action
InputHandler_handle_mode_action(s, action, env) ==
    CASE action.tag = "Select" ->
            Ok(recompute_display_data([s EXCEPT !.selected = action.index]))
      [] action.tag = "CreateEntry" ->
            InputHandler_CreateListed(Push(s, action.op),
                                      read_dir_entries(s.fs, s.current_path, env))
      [] action.tag = "RenameEntry" -> Relist(Push(s, action.op), env)
      [] action.tag = "Exit" -> Ok(recompute_display_data(s))

\* navigate, after set_current_dir(selected_path)? and current_dir()?
InputHandler_Entered(s, cwd, listed) ==
    IF ~listed.ok THEN Err([s EXCEPT !.current_path = cwd])
    ELSE Ok(Renderer_reset_viewport(recompute_display_data(
            [s EXCEPT !.current_path = cwd,
                      !.entries = listed.entries,
                      !.selected = 1])))

\* navigate to the selected path: into a directory, or the editor on a file
\* (open_file_in_editor: xdg-open exits with a non-zero status for a path
\* that does not exist, which is returned as an error)
InputHandler_NavigateTo(s, selected_path, env) ==
    IF IsDir(s.fs, selected_path)
    THEN IF env.fail = "chdir" THEN Err(s)
         ELSE InputHandler_Entered(s, Resolve(selected_path),
                  read_dir_entries(s.fs, Resolve(selected_path), env))
    ELSE IF env.fail = "spawn" \/ ~Exists(s.fs, selected_path) THEN Err(s)
    ELSE Ok(s)

\* InputHandler::navigate
InputHandler_navigate(s, env) ==
    IF s.selected < Len(s.entries)
    THEN InputHandler_NavigateTo(s, At(s.entries, s.selected), env)
    ELSE Ok(s)

\* a confirmed delete that leaves the display cache as it was: the fault
\* that C40 excludes
Deleted_uncached(s, prep, del) ==
    IF ~prep.ok THEN Err(s)
    ELSE IF ~del.ok THEN Err([s EXCEPT !.fs = del.fs])
    ELSE Ok([s EXCEPT
                !.fs = del.fs,
                !.history = Append(IF s.history_index < Len(s.history)
                                   THEN Truncate(s.history, s.history_index)
                                   ELSE s.history,
                                   prep.op),
                !.history_index = s.history_index + 1,
                !.entries = Remove(s.entries, s.selected),
                !.delete_mode = None])

\* a confirmed delete, after prepare_delete_operation and delete_path
Deleted(s, prep, del) ==
    IF ~prep.ok THEN Err(s)
    ELSE IF ~del.ok THEN Err([s EXCEPT !.fs = del.fs])
    ELSE Ok(recompute_display_data(
            [s EXCEPT
                !.fs = del.fs,
                !.history = Append(IF s.history_index < Len(s.history)
                                   THEN Truncate(s.history, s.history_index)
                                   ELSE s.history,
                                   prep.op),
                !.history_index = s.history_index + 1,
                !.entries = Remove(s.entries, s.selected),
                !.delete_mode = None]))

\* handle_delete on the selected path: the first d arms, the next deletes
DeleteSelected(s, selected_path, env) ==
    IF s.delete_mode = None
    THEN Ok([s EXCEPT !.delete_mode = Some(s.selected)])
    ELSE Deleted(s,
             prepare_delete_operation(s.fs, selected_path, s.selected, env),
             delete_path(s.fs, selected_path, IsDir(s.fs, selected_path), env))

\* a handle_delete without the test that the selection is not the parent
\* entry: the fault that C21 excludes
InputHandler_handle_delete_any(s, env) ==
    IF s.selected < Len(s.entries)
    THEN DeleteSelected(s, At(s.entries, s.selected), env)
    ELSE Ok(s)

\* InputHandler::handle_delete
InputHandler_handle_delete(s, env) ==
    IF s.selected > 0 /\ s.selected < Len(s.entries)
    THEN DeleteSelected(s, At(s.entries, s.selected), env)
    ELSE Ok(s)

\* the filesystem call of an undo: the inverse of the operation
UndoFs(f, op, env) ==
    CASE op.tag = "Delete" ->
            restore_deleted_path(f, op.path, op.is_dir, op.content, op.dir_backup, env)
      [] op.tag = "Create" -> delete_path(f, op.path, op.is_dir, env)
      [] op.tag = "Rename" -> rename_path(f, op.new_path, op.old_path, FALSE, env)

\* the filesystem call of a redo: the operation again
RedoFs(f, op, env) ==
    CASE op.tag = "Delete" -> delete_path(f, op.path, op.is_dir, env)
      [] op.tag = "Create" ->
            IF op.is_dir THEN create_directory(f, op.path, env)
            ELSE create_file(f, op.path, env)
      [] op.tag = "Rename" -> rename_path(f, op.old_path, op.new_path, FALSE, env)

\* an undo that takes the operation it has undone out of the history: the
\* fault that C33 excludes
InputHandler_Undone_popping(s, done, env) ==
    IF ~done.ok THEN Err([s EXCEPT !.fs = done.fs])
    ELSE Relist([s EXCEPT !.fs = done.fs,
                          !.history = SubSeq(@, 1, s.history_index)
                                      \o SubSeq(@, s.history_index + 2, Len(@))],
                env)

\* undo, after the filesystem call
InputHandler_Undone(s, done, env) ==
    IF ~done.ok THEN Err([s EXCEPT !.fs = done.fs])
    ELSE Relist([s EXCEPT !.fs = done.fs], env)

\* undo, after history_index -= 1
InputHandler_UndoAt(s, env) ==
    InputHandler_Undone(s, UndoFs(s.fs, At(s.history, s.history_index), env), env)

\* an undo that moves the selection to the top when there is nothing to
\* undo: the fault that C22 excludes
InputHandler_undo_reselecting(s, env) ==
    IF s.history_index > 0
    THEN InputHandler_UndoAt([s EXCEPT !.history_index = s.history_index - 1], env)
    ELSE Ok([s EXCEPT !.selected = 0])

\* InputHandler::undo
InputHandler_undo(s, env) ==
    IF s.history_index > 0
    THEN InputHandler_UndoAt([s EXCEPT !.history_index = s.history_index - 1], env)
    ELSE Ok(s)

\* a redo that advances the cursor before it looks at the outcome of the
\* filesystem call, as undo does: the fault that C6 excludes
InputHandler_Redone_early(s, done, env) ==
    IF ~done.ok
    THEN Err([s EXCEPT !.fs = done.fs, !.history_index = s.history_index + 1])
    ELSE Relist([s EXCEPT !.fs = done.fs,
                          !.history_index = s.history_index + 1], env)

\* an operation whose saved content and backup were taken out of it
Taken(op) ==
    IF op.tag = "Delete"
    THEN [op EXCEPT !.content = None, !.dir_backup = None]
    ELSE op

\* a redo that takes the saved content and the backup out of the operation
\* it redoes: the fault that C10 excludes
InputHandler_Redone_taking(s, done, env) ==
    IF ~done.ok THEN Err([s EXCEPT !.fs = done.fs])
    ELSE Relist([s EXCEPT !.fs = done.fs,
                          !.history[s.history_index + 1] = Taken(@),
                          !.history_index = s.history_index + 1], env)

\* redo, after the filesystem call
InputHandler_Redone(s, done, env) ==
    IF ~done.ok THEN Err([s EXCEPT !.fs = done.fs])
    ELSE Relist([s EXCEPT !.fs = done.fs,
                          !.history_index = s.history_index + 1], env)

\* a redo whose history_index += 1 stands outside the test that there is an
\* operation to redo: the fault that C4_CursorInRange excludes
InputHandler_redo_unguarded(s, env) ==
    IF s.history_index < Len(s.history)
    THEN InputHandler_Redone(s, RedoFs(s.fs, At(s.history, s.history_index), env), env)
    ELSE Ok([s EXCEPT !.history_index = s.history_index + 1])

\* InputHandler::redo
InputHandler_redo(s, env) ==
    IF s.history_index < Len(s.history)
    THEN InputHandler_Redone(s, RedoFs(s.fs, At(s.history, s.history_index), env), env)
    ELSE Ok(s)

\* InputHandler::increment_selected
InputHandler_increment_selected(s) ==
    IF s.selected < Len(s.entries) - 1
    THEN [s EXCEPT !.selected = s.selected + 1]
    ELSE s

\* InputHandler::decrement_selected
InputHandler_decrement_selected(s) ==
    IF s.selected > 0 THEN [s EXCEPT !.selected = s.selected - 1] ELSE s

\* InputHandler::goto_header
InputHandler_goto_header(s) ==
    IF s.selected > 0 THEN [s EXCEPT !.selected = 0] ELSE s

\* InputHandler::goto_footer
InputHandler_goto_footer(s) ==
    IF s.selected < Len(s.entries) - 1
    THEN [s EXCEPT !.selected = Len(s.entries) - 1]
    ELSE s

\* back, after set_current_dir(parent).unwrap()
InputHandler_BackListed(s, parent, listed) ==
    IF ~listed.ok THEN Panic([s EXCEPT !.current_path = parent])
    ELSE Ok(recompute_display_data(
            [s EXCEPT !.current_path = parent,
                      !.entries = listed.entries,
                      !.selected = 1]))

\* back to the parent: the two calls it unwraps panic on an error
InputHandler_BackTo(s, parent, env) ==
    IF env.fail = "chdir" \/ ~IsDir(s.fs, parent) THEN Panic(s)
    ELSE InputHandler_BackListed(s, parent, read_dir_entries(s.fs, parent, env))

\* InputHandler::back
InputHandler_back(s, env) ==
    IF s.current_path # Root
    THEN InputHandler_BackTo(s, Parent(s.current_path), env)
    ELSE Ok(s)

----------------------------------------------------------------------------
(* Events (crossterm::event::Event) *)

KeyEv(code, ctrl) == [kind |-> "Key", code |-> code, ctrl |-> ctrl, row |-> 0]

MouseEv(code, row) == [kind |-> "Mouse", code |-> code, ctrl |-> FALSE, row |-> row]

ResizeEv == [kind |-> "Resize", code |-> "", ctrl |-> FALSE, row |-> 0]

\* KeyCode::Char(c): the command characters and the characters typed
CharCodes == {"/", "n", "a", "r", "q", "j", "k", "G", "g", "d", "u", "b"} \cup TypedChars

IsChar(code) == code \in CharCodes

\* the character handle_prompt_input passes to Prompt::handle_input
InputChar(key) ==
    IF key.code = "Enter" THEN NL
    ELSE IF key.code = "Backspace" THEN DEL
    ELSE key.code

\* Vec::get
Get(seq, i) == IF i < Len(seq) THEN Some(At(seq, i)) ELSE None

\* handle_prompt_input, after prompt.handle_input(..)? left the state s
InputHandler_Prompted(s, r, env) ==
    IF r.res = "Err" THEN Err(s)
    ELSE IF r.action # None
    THEN InputHandler_handle_mode_action(s, Unwrap(r.action), env)
    ELSE Ok(s)

\* handle_prompt_input with what prompt.handle_input(..) returned
InputHandler_PromptInput(s, r, env) ==
    InputHandler_Prompted([s EXCEPT !.prompt = r.prompt, !.fs = r.fs], r, env)

\* InputHandler::handle_prompt_input
InputHandler_handle_prompt_input(s, key, env) ==
    IF key.code = "Esc"
    THEN Ok([s EXCEPT !.prompt = set_mode(s.prompt, "Normal")])
    ELSE IF key.code = "Enter" \/ IsChar(key.code) \/ key.code = "Backspace"
    THEN InputHandler_PromptInput(s,
             handle_input(s.prompt, s.fs, InputChar(key), s.entries,
                          s.current_path, Get(s.entries, s.selected), env),
             env)
    ELSE Ok(s)

\* InputHandler::handle_normal_input
InputHandler_handle_normal_input(s, key, env) ==
    LET c  == key.code
        nm == next_match(s.prompt)
        viewport(x) == Renderer_update_viewport(x, x.selected, Len(x.entries))
    IN  CASE c = "/" -> Ok([s EXCEPT !.prompt = set_mode(s.prompt, "Search")])
          [] c = "n" ->
                Ok([s EXCEPT !.prompt = nm.prompt,
                             !.selected = IF nm.index # None THEN Unwrap(nm.index)
                                          ELSE s.selected])
          [] c = "a" -> Ok([s EXCEPT !.prompt = set_mode(s.prompt, "Create")])
          [] c = "r" /\ key.ctrl -> InputHandler_redo(s, env)
          [] c = "r" /\ ~key.ctrl ->
                IF s.selected > 0
                THEN IF s.selected >= Len(s.entries) THEN Panic(s)
                     ELSE Ok([s EXCEPT !.prompt =
                                 set_mode_with_text(s.prompt, "Rename",
                                     FileName(At(s.entries, s.selected)))])
                ELSE Ok(s)
          [] c = "q" -> Quit(s)
          [] c \in {"j", "Down"} -> Ok(viewport(InputHandler_increment_selected(s)))
          [] c \in {"k", "Up"} -> Ok(viewport(InputHandler_decrement_selected(s)))
          [] c \in {"G", "End"} -> Ok(viewport(InputHandler_goto_footer(s)))
          [] c \in {"g", "Home"} -> Ok(viewport(InputHandler_goto_header(s)))
          [] c = "d" -> InputHandler_handle_delete(s, env)
          [] c = "u" -> InputHandler_undo(s, env)
          [] c \in {"Enter", "Right"} -> InputHandler_navigate(s, env)
          [] c \in {"Left", "b", "Backspace"} -> InputHandler_back(s, env)
          [] OTHER -> Ok(s)

\* InputHandler::handle_key_event
InputHandler_handle_key_event(s, key, env) ==
    LET s1 == IF key.code # "d" THEN [s EXCEPT !.delete_mode = None] ELSE s
    IN  IF is_active(s1.prompt)
        THEN InputHandler_handle_prompt_input(s1, key, env)
        ELSE InputHandler_handle_normal_input(s1, key, env)

\* InputHandler::handle_mouse_event
InputHandler_handle_mouse_event(s, event, env) ==
    CASE event.code = "ScrollDown" ->
            LET s1 == Renderer_scroll_down(s, Len(s.entries))
            IN  Ok(IF s1.selected < s1.viewport_start
                   THEN [s1 EXCEPT !.selected = s1.viewport_start]
                   ELSE s1)
      [] event.code = "ScrollUp" ->
            LET s1 == Renderer_scroll_up(s)
                viewport_end == s1.viewport_start + s1.viewport_size
            IN  Ok(IF s1.selected >= viewport_end
                   THEN [s1 EXCEPT !.selected = viewport_end - 1]
                   ELSE s1)
      [] event.code = "DownLeft" ->
            LET absolute_row == s.viewport_start + event.row
            IN  IF absolute_row < Len(s.entries)
                THEN IF s.selected = absolute_row
                     THEN InputHandler_navigate(s, env)
                     ELSE Ok([s EXCEPT !.selected = absolute_row])
                ELSE Ok(s)
      [] OTHER -> Ok(s)

\* InputHandler::handle_event
InputHandler_handle_event(s, event, env) ==
    CASE event.kind = "Key" -> InputHandler_handle_key_event(s, event, env)
      [] event.kind = "Mouse" -> InputHandler_handle_mouse_event(s, event, env)
      [] event.kind = "Resize" ->
            Ok(Renderer_update_viewport(s, s.selected, Len(s.entries)))
      [] OTHER -> Ok(s)

----------------------------------------------------------------------------
(* explorer.rs: FileExplorer, which holds the same state in its own fields *)

\* whether stdout is not a terminal (FileExplorer::new); here it is one
is_tty_mode == FALSE

\* Vec::iter().position(|p| p == path)
Position(seq, path) ==
    IF \E i \in 1..Len(seq) : seq[i] = path
    THEN Some((CHOOSE i \in 1..Len(seq) :
                  seq[i] = path /\ \A j \in 1..(i - 1) : seq[j] # path) - 1)
    ELSE None

\* FileExplorer::update_viewport
FileExplorer_update_viewport(s) ==
    LET size == s.term_height - 2
    IN  [s EXCEPT !.viewport_size = size,
                  !.viewport_start =
                      IF s.selected >= s.viewport_start + size
                      THEN s.selected - size + 1
                      ELSE IF s.selected < s.viewport_start THEN s.selected
                      ELSE s.viewport_start]

\* FileExplorer::scroll_up
FileExplorer_scroll_up(s) ==
    IF s.viewport_start > 0
    THEN LET s1 == [s EXCEPT !.viewport_start = s.viewport_start - 1]
         IN  FileExplorer_update_viewport(
                 IF s1.viewport_start + s1.viewport_size <= s1.selected
                 THEN [s1 EXCEPT !.selected = s1.viewport_start + s1.viewport_size - 1]
                 ELSE s1)
    ELSE s

\* FileExplorer::scroll_down
FileExplorer_scroll_down(s) ==
    IF s.viewport_start + s.viewport_size < Len(s.entries)
    THEN LET s1 == [s EXCEPT !.viewport_start = s.viewport_start + 1]
         IN  FileExplorer_update_viewport(
                 IF s1.selected < s1.viewport_start
                 THEN [s1 EXCEPT !.selected = s1.viewport_start]
                 ELSE s1)
    ELSE s

\* navigate, after set_current_dir(selected_path)? and current_dir()?
FileExplorer_Entered(s, cwd, listed) ==
    IF ~listed.ok THEN Err([s EXCEPT !.current_path = cwd])
    ELSE Ok(recompute_display_data(FileExplorer_update_viewport(
            [s EXCEPT !.current_path = cwd,
                      !.entries = listed.entries,
                      !.selected = 1,
                      !.viewport_start = 0])))

\* navigate to the selected path: into a directory, or the editor on a file
FileExplorer_NavigateTo(s, selected_path, env) ==
    IF IsDir(s.fs, selected_path)
    THEN IF env.fail = "chdir" THEN Err(s)
         ELSE FileExplorer_Entered(s, Resolve(selected_path),
                  read_dir_entries(s.fs, Resolve(selected_path), env))
    ELSE IF ~is_tty_mode /\ (env.fail = "spawn" \/ ~Exists(s.fs, selected_path))
    THEN Err(s)
    ELSE Ok(s)

\* FileExplorer::navigate
FileExplorer_navigate(s, env) ==
    IF s.selected < Len(s.entries)
    THEN FileExplorer_NavigateTo(s, At(s.entries, s.selected), env)
    ELSE Ok(s)

\* FileExplorer::increment_selected
FileExplorer_increment_selected(s) ==
    IF s.selected < Len(s.entries) - 1
    THEN FileExplorer_update_viewport([s EXCEPT !.selected = s.selected + 1])
    ELSE s

\* FileExplorer::decrement_selected
FileExplorer_decrement_selected(s) ==
    IF s.selected > 0
    THEN FileExplorer_update_viewport([s EXCEPT !.selected = s.selected - 1])
    ELSE s

\* FileExplorer::goto_header
FileExplorer_goto_header(s) ==
    IF s.selected > 0
    THEN FileExplorer_update_viewport([s EXCEPT !.selected = 0, !.viewport_start = 0])
    ELSE s

\* FileExplorer::goto_footer
FileExplorer_goto_footer(s) ==
    IF s.selected < Len(s.entries) - 1
    THEN FileExplorer_update_viewport([s EXCEPT !.selected = Len(s.entries) - 1])
    ELSE s

\* FileExplorer::delete
FileExplorer_delete(s, env) ==
    IF s.selected > 0 /\ s.selected < Len(s.entries)
    THEN DeleteSelected(s, At(s.entries, s.selected), env)
    ELSE Ok(s)

\* the selection undo leaves: the restored or renamed path where the
\* listing holds it, else a clamped index
FileExplorer_UndoSelection(op, ents, sel) ==
    CASE op.tag = "Delete" ->
            IF Position(ents, op.path) # None
            THEN Unwrap(Position(ents, op.path))
            ELSE Min(op.position, Len(ents) - 1)
      [] op.tag = "Create" -> Min(sel, Len(ents) - 1)
      [] op.tag = "Rename" ->
            IF Position(ents, op.new_path) # None
            THEN Unwrap(Position(ents, op.new_path))
            ELSE Min(sel, Len(ents) - 1)

\* undo, after read_dir_entries
FileExplorer_UndoListed(s, op, listed) ==
    IF ~listed.ok THEN Err(s)
    ELSE Ok(recompute_display_data(
            [s EXCEPT !.entries = listed.entries,
                      !.selected =
                          FileExplorer_UndoSelection(op, listed.entries, s.selected)]))

\* undo, after the filesystem call
FileExplorer_Undone(s, op, done, env) ==
    IF ~done.ok THEN Err([s EXCEPT !.fs = done.fs])
    ELSE FileExplorer_UndoListed([s EXCEPT !.fs = done.fs], op,
                                 read_dir_entries(done.fs, s.current_path, env))

\* undo, after history_index -= 1
FileExplorer_UndoAt(s, env) ==
    FileExplorer_Undone(s, At(s.history, s.history_index),
                        UndoFs(s.fs, At(s.history, s.history_index), env), env)

\* FileExplorer::undo
FileExplorer_undo(s, env) ==
    IF s.history_index > 0
    THEN FileExplorer_UndoAt([s EXCEPT !.history_index = s.history_index - 1], env)
    ELSE Ok(s)

\* redo, after read_dir_entries
FileExplorer_RedoListed(s, listed) ==
    IF ~listed.ok THEN Err(s)
    ELSE Ok(recompute_display_data(
            [s EXCEPT
                !.entries = listed.entries,
                !.selected =
                    IF s.selected >= Len(listed.entries)
                    THEN Min(s.selected, SaturatingSub(Len(listed.entries), 1))
                    ELSE s.selected]))

\* redo, after the filesystem call
FileExplorer_Redone(s, done, env) ==
    IF ~done.ok THEN Err([s EXCEPT !.fs = done.fs])
    ELSE FileExplorer_RedoListed(
             [s EXCEPT !.fs = done.fs, !.history_index = s.history_index + 1],
             read_dir_entries(done.fs, s.current_path, env))

\* FileExplorer::redo
FileExplorer_redo(s, env) ==
    IF s.history_index < Len(s.history)
    THEN FileExplorer_Redone(s, RedoFs(s.fs, At(s.history, s.history_index), env), env)
    ELSE Ok(s)

\* the end of handle_mode_action
FileExplorer_Finish(s) == Ok(FileExplorer_update_viewport(recompute_display_data(s)))

\* a created entry, after read_dir_entries: the selection goes to the last entry
FileExplorer_CreateListed(s, listed) ==
    IF ~listed.ok THEN Err(s)
    ELSE FileExplorer_Finish([s EXCEPT !.entries = listed.entries,
                                       !.selected = Len(listed.entries) - 1])

\* a renamed entry, after read_dir_entries
FileExplorer_RenameListed(s, listed) ==
    IF ~listed.ok THEN Err(s)
    ELSE FileExplorer_Finish([s EXCEPT !.entries = listed.entries])

\* FileExplorer::handle_mode_action
FileExplorer_handle_mode_action(s, action, env) ==
    CASE action.tag = "Select" ->
            FileExplorer_Finish([s EXCEPT !.selected = action.index])
      [] action.tag = "CreateEntry" ->
            FileExplorer_CreateListed(Push(s, action.op),
                                      read_dir_entries(s.fs, s.current_path, env))
      [] action.tag = "RenameEntry" ->
            FileExplorer_RenameListed(Push(s, action.op),
                                      read_dir_entries(s.fs, s.current_path, env))
      [] action.tag = "Exit" -> FileExplorer_Finish(s)

\* the prompt branch of handle_key_event, after prompt.handle_input(..)?
FileExplorer_Prompted(s, r, env) ==
    IF r.res = "Err" THEN Err(s)
    ELSE IF r.action # None
    THEN FileExplorer_handle_mode_action(s, Unwrap(r.action), env)
    ELSE Ok(s)

FileExplorer_PromptInput(s, r, env) ==
    FileExplorer_Prompted([s EXCEPT !.prompt = r.prompt, !.fs = r.fs], r, env)

\* handle_key_event, after the pending delete is dropped for a key that is not d
FileExplorer_KeyEvent(s, key, env) ==
    LET c == key.code
    IN  IF is_active(s.prompt)
        THEN CASE c = "Esc" -> Ok([s EXCEPT !.prompt = set_mode(s.prompt, "Normal")])
               [] c = "Enter" \/ IsChar(c) \/ c = "Backspace" ->
                     FileExplorer_PromptInput(s,
                         handle_input(s.prompt, s.fs, InputChar(key), s.entries,
                                      s.current_path, Get(s.entries, s.selected), env),
                         env)
               [] OTHER -> Ok(s)
        ELSE CASE c = "/" -> Ok([s EXCEPT !.prompt = set_mode(s.prompt, "Search")])
               [] c = "n" ->
                     Ok([s EXCEPT
                            !.prompt = next_match(s.prompt).prompt,
                            !.selected = IF next_match(s.prompt).index # None
                                         THEN Unwrap(next_match(s.prompt).index)
                                         ELSE s.selected])
               [] c = "a" -> Ok([s EXCEPT !.prompt = set_mode(s.prompt, "Create")])
               [] c = "r" /\ key.ctrl -> FileExplorer_redo(s, env)
               [] c = "r" /\ ~key.ctrl ->
                     IF s.selected > 0
                     THEN IF s.selected >= Len(s.entries) THEN Panic(s)
                          ELSE Ok([s EXCEPT !.prompt =
                                      set_mode_with_text(s.prompt, "Rename",
                                          FileName(At(s.entries, s.selected)))])
                     ELSE Ok(s)
               [] c = "q" -> Quit(s)
               [] c \in {"j", "Down"} -> Ok(FileExplorer_increment_selected(s))
               [] c \in {"k", "Up"} -> Ok(FileExplorer_decrement_selected(s))
               [] c \in {"G", "End"} -> Ok(FileExplorer_goto_footer(s))
               [] c \in {"g", "Home"} -> Ok(FileExplorer_goto_header(s))
               [] c = "d" -> FileExplorer_delete(s, env)
               [] c = "u" -> FileExplorer_undo(s, env)
               [] c = "Enter" -> FileExplorer_navigate(s, env)
               [] OTHER -> Ok(s)

\* FileExplorer::handle_key_event
FileExplorer_handle_key_event(s, key, env) ==
    FileExplorer_KeyEvent(
        IF key.code # "d" THEN [s EXCEPT !.delete_mode = None] ELSE s, key, env)

\* FileExplorer::handle_mouse_event
FileExplorer_handle_mouse_event(s, event, env) ==
    CASE event.code = "ScrollDown" -> Ok(FileExplorer_scroll_down(s))
      [] event.code = "ScrollUp" -> Ok(FileExplorer_scroll_up(s))
      [] event.code = "DownLeft" ->
            LET idx == event.row + s.viewport_start
            IN  IF idx < Len(s.entries)
                THEN IF s.selected = idx
                     THEN FileExplorer_navigate(s, env)
                     ELSE Ok(FileExplorer_update_viewport([s EXCEPT !.selected = idx]))
                ELSE Ok(s)
      [] OTHER -> Ok(s)

\* FileExplorer::run_loop, one turn: an error of a handler ends the loop
FileExplorer_run_loop(s, event, env) ==
    CASE event.kind = "Key" -> FileExplorer_handle_key_event(s, event, env)
      [] event.kind = "Mouse" -> FileExplorer_handle_mouse_event(s, event, env)
      [] event.kind = "Resize" -> Ok(FileExplorer_update_viewport(s))
      [] OTHER -> Ok(s)

----------------------------------------------------------------------------
(* The initial state *)

\* the tree the browser is started in: /a, /B/, /B/a, /B/b/ (empty)
InitFs ==
    (<<>> :> Dir) @@ (<< <<"a">> >> :> File("x")) @@ (<< <<"B">> >> :> Dir)
        @@ (<< <<"B">>, <<"a">> >> :> File("y")) @@ (<< <<"B">>, <<"b">> >> :> Dir)

\* the directories it may be started in (env::current_dir)
StartDirs == {p \in DOMAIN InitFs : InitFs[p].is_dir}

\* the terminal heights
Heights == {3, 4}

\* AppState::new with Renderer::new, and FileExplorer::new
Init ==
    /\ impl \in {"input", "explorer"}
    /\ running = TRUE
    /\ fs = InitFs
    /\ term_height \in Heights
    /\ current_path \in StartDirs
    /\ entries = read_dir_entries(fs, current_path, NoFail).entries
    /\ selected = 1
    /\ delete_mode = None
    /\ history = <<>>
    /\ history_index = 0
    /\ prompt = Prompt_new
    /\ viewport_start = 0
    /\ viewport_size = IF impl = "input" THEN term_height - 2 ELSE term_height
    /\ modules_cache =
           recompute_display_data(
               [fs |-> fs, entries |-> entries, modules_cache |-> <<>>,
                max_widths |-> <<>>, recomputed |-> FALSE]).modules_cache
    /\ max_widths =
           recompute_display_data(
               [fs |-> fs, entries |-> entries, modules_cache |-> <<>>,
                max_widths |-> <<>>, recomputed |-> FALSE]).max_widths
    /\ typable \in SUBSET Typable
    /\ faults \in SUBSET (Fails \ {"none"})
    /\ last = [cmd |-> "Init", res |-> "Ok"]

----------------------------------------------------------------------------
(* One event: the handler of the running implementation, and its effect *)

Handle(s, event, env) ==
    IF impl = "input"
    THEN InputHandler_handle_event(s, event, env)
    ELSE FileExplorer_run_loop(s, event, env)

\* whether the caller reads another event after this result: run_loop
\* returns on Quit and on an error; a caller of InputHandler::handle_event
\* gets the error back and goes on
Continues(res) == res = "Ok" \/ (res = "Err" /\ impl = "input")

Commit(r, cmd) ==
    /\ Len(r.s.history) <= MaxHist
    /\ fs' = r.s.fs
    /\ term_height' = r.s.term_height
    /\ current_path' = r.s.current_path
    /\ entries' = r.s.entries
    /\ selected' = r.s.selected
    /\ delete_mode' = r.s.delete_mode
    /\ history' = r.s.history
    /\ history_index' = r.s.history_index
    /\ prompt' = r.s.prompt
    /\ viewport_start' = r.s.viewport_start
    /\ viewport_size' = r.s.viewport_size
    /\ modules_cache' = r.s.modules_cache
    /\ max_widths' = r.s.max_widths
    /\ running' = Continues(r.res)
    /\ last' = [cmd |-> cmd, res |-> r.res]
    /\ impl' = impl
    /\ typable' = typable
    /\ faults' = faults

\* the answers of the filesystem to one handler: no failure, or one of the
\* failures of this run that the handler can meet
EnvsOf(fails, revs) ==
    {e \in Envs : e.fail \in {"none"} \cup (fails \cap faults) /\ e.rev \in revs}

Normal == running /\ ~is_active(prompt)

Prompting == running /\ is_active(prompt)

BeginSearch ==
    /\ Normal
    /\ Commit(Handle(State, KeyEv("/", FALSE), NoFail), "BeginSearch")

NextMatch ==
    /\ Normal
    /\ Commit(Handle(State, KeyEv("n", FALSE), NoFail), "NextMatch")

BeginCreate ==
    /\ Normal
    /\ Commit(Handle(State, KeyEv("a", FALSE), NoFail), "BeginCreate")

BeginRename ==
    /\ Normal
    /\ Commit(Handle(State, KeyEv("r", FALSE), NoFail), "BeginRename")

QuitKey ==
    /\ Normal
    /\ Commit(Handle(State, KeyEv("q", FALSE), NoFail), "Quit")

MoveDown ==
    /\ Normal
    /\ \E c \in {"j", "Down"} :
           Commit(Handle(State, KeyEv(c, FALSE), NoFail), "MoveDown")

MoveUp ==
    /\ Normal
    /\ \E c \in {"k", "Up"} :
           Commit(Handle(State, KeyEv(c, FALSE), NoFail), "MoveUp")

GotoBottom ==
    /\ Normal
    /\ \E c \in {"G", "End"} :
           Commit(Handle(State, KeyEv(c, FALSE), NoFail), "GotoBottom")

GotoTop ==
    /\ Normal
    /\ \E c \in {"g", "Home"} :
           Commit(Handle(State, KeyEv(c, FALSE), NoFail), "GotoTop")

Delete ==
    /\ Normal
    /\ \E env \in EnvsOf({"none", "read", "list", "write"}, {FALSE}) :
           Commit(Handle(State, KeyEv("d", FALSE), env), "Delete")

Undo ==
    /\ Normal
    /\ \E env \in EnvsOf({"none", "write", "list"}, BOOLEAN) :
           Commit(Handle(State, KeyEv("u", FALSE), env), "Undo")

Redo ==
    /\ Normal
    /\ \E env \in EnvsOf({"none", "write", "list"}, BOOLEAN) :
           Commit(Handle(State, KeyEv("r", TRUE), env), "Redo")

Activate ==
    /\ Normal
    /\ \E c \in {"Enter", "Right"} :
       \E env \in EnvsOf({"none", "chdir", "list", "spawn"}, BOOLEAN) :
           Commit(Handle(State, KeyEv(c, FALSE), env), "Activate")

GoBack ==
    /\ Normal
    /\ \E c \in {"Left", "b", "Backspace"} :
       \E env \in EnvsOf({"none", "chdir", "list"}, BOOLEAN) :
           Commit(Handle(State, KeyEv(c, FALSE), env), "GoBack")

OtherKey ==
    /\ Normal
    /\ \E c \in {"B", "Esc", "Tab"} :
           Commit(Handle(State, KeyEv(c, FALSE), NoFail), "OtherKey")

PromptEsc ==
    /\ Prompting
    /\ Commit(Handle(State, KeyEv("Esc", FALSE), NoFail), "PromptEsc")

PromptEnter ==
    /\ Prompting
    /\ \E env \in EnvsOf({"none", "write", "list"}, BOOLEAN) :
           Commit(Handle(State, KeyEv("Enter", FALSE), env), prompt.mode)

PromptChar ==
    /\ Prompting
    /\ \E c \in TypedChars :
           /\ Append(prompt.query, c) \in TypablePrefixes(typable)
           /\ Commit(Handle(State, KeyEv(c, FALSE), NoFail), "PromptChar")

PromptBackspace ==
    /\ Prompting
    /\ Commit(Handle(State, KeyEv("Backspace", FALSE), NoFail), "PromptBackspace")

PromptOtherKey ==
    /\ Prompting
    /\ \E c \in {"Down", "Tab"} :
           Commit(Handle(State, KeyEv(c, FALSE), NoFail), "PromptOtherKey")

ScrollDown ==
    /\ running
    /\ Commit(Handle(State, MouseEv("ScrollDown", 0), NoFail), "ScrollDown")

ScrollUp ==
    /\ running
    /\ Commit(Handle(State, MouseEv("ScrollUp", 0), NoFail), "ScrollUp")

Click ==
    /\ running
    /\ \E row \in 0..(term_height - 1) :
       \E env \in EnvsOf({"none", "chdir", "list", "spawn"}, BOOLEAN) :
           Commit(Handle(State, MouseEv("DownLeft", row), env), "Click")

MouseOther ==
    /\ running
    /\ Commit(Handle(State, MouseEv("Moved", 0), NoFail), "MouseOther")

\* another process removes a path, and what is below it, from the
\* filesystem; the current directory stays
Vanish ==
    /\ running
    /\ \E p \in DOMAIN fs \ Prefixes(current_path) :
           fs' = Restrict(fs, DOMAIN fs \ Subtree(fs, p))
    /\ last' = [cmd |-> "Vanish", res |-> "Ok"]
    /\ UNCHANGED <<impl, running, term_height, current_path, entries, selected,
                   delete_mode, history, history_index, prompt, viewport_start,
                   viewport_size, modules_cache, max_widths, typable, faults>>

\* the terminal takes a height and the Resize event is handled
Resize ==
    /\ running
    /\ \E h \in Heights :
           Commit(Handle([State EXCEPT !.term_height = h], ResizeEv, NoFail), "Resize")

Next ==
    \/ BeginSearch \/ NextMatch \/ BeginCreate \/ BeginRename \/ QuitKey
    \/ MoveDown \/ MoveUp \/ GotoBottom \/ GotoTop
    \/ Delete \/ Undo \/ Redo \/ Activate \/ GoBack \/ OtherKey
    \/ PromptEsc \/ PromptEnter \/ PromptChar \/ PromptBackspace \/ PromptOtherKey
    \/ ScrollDown \/ ScrollUp \/ Click \/ MouseOther \/ Resize \/ Vanish

Spec == Init /\ [][Next]_vars

----------------------------------------------------------------------------
(* The journal: delete, create, rename, undo and redo in the start        *)
(* directory, with reads and writes that may fail                         *)

InitJournal ==
    /\ Init
    /\ term_height = 4
    /\ current_path = Root
    /\ typable = {<<"B", "/">>}
    /\ faults = {"read", "write"}

NextJournal ==
    \/ Delete \/ Undo \/ Redo \/ MoveDown \/ MoveUp
    \/ BeginCreate \/ BeginRename
    \/ PromptChar \/ PromptBackspace \/ PromptEnter \/ PromptEsc

SpecJournal == InitJournal /\ [][NextJournal]_vars

----------------------------------------------------------------------------
(* The records: the same commands with a new name to create and to rename *)
(* to, on a filesystem that does not fail                                 *)

InitRecord ==
    /\ Init
    /\ term_height = 4
    /\ current_path = Root
    /\ typable = {<<"b">>}
    /\ faults = {}

SpecRecord == InitRecord /\ [][NextJournal]_vars

----------------------------------------------------------------------------
(* The prompt: search, create and rename with every name of Typable, in   *)
(* every start directory, with next-match and the move keys, on a         *)
(* filesystem whose mutations may fail                                    *)

InitPrompt ==
    /\ Init
    /\ term_height = 4
    /\ typable = Typable
    /\ faults = {"write"}

NextPrompt ==
    \/ BeginSearch \/ NextMatch \/ BeginCreate \/ BeginRename
    \/ MoveDown \/ MoveUp
    \/ PromptChar \/ PromptBackspace \/ PromptEnter \/ PromptEsc
    \/ PromptOtherKey

SpecPrompt == InitPrompt /\ [][NextPrompt]_vars

----------------------------------------------------------------------------
(* Browsing: every command of Normal mode but the prompts, the mouse and  *)
(* the resize, in every start directory and at every height, on a         *)
(* filesystem that does not fail                                          *)

InitBrowse ==
    /\ Init
    /\ typable = {}
    /\ faults = {}

NextBrowse ==
    \/ MoveDown \/ MoveUp \/ GotoBottom \/ GotoTop
    \/ Delete \/ Undo \/ Redo \/ Activate \/ GoBack
    \/ ScrollDown \/ ScrollUp \/ Click \/ Resize

SpecBrowse == InitBrowse /\ [][NextBrowse]_vars

----------------------------------------------------------------------------
(* The Renderer's viewport: InputHandler in a directory of five files, at *)
(* any terminal height of ViewHeights, with the selection on any row and  *)
(* the window left at any offset by an earlier listing; the move keys,    *)
(* the wheel, the click and the resize                                    *)

\* a directory of five files
WideFs ==
    (<<>> :> Dir) @@ (<< <<"a">> >> :> File("")) @@ (<< <<"b">> >> :> File(""))
        @@ (<< <<"a", "a">> >> :> File("")) @@ (<< <<"a", "b">> >> :> File(""))
        @@ (<< <<"b", "a">> >> :> File(""))

\* the terminal heights: windows of 1 to MaxViewport rows
MaxViewport == 7

ViewHeights == 3..(MaxViewport + 2)

InitViewport ==
    /\ impl = "input"
    /\ running = TRUE
    /\ fs = WideFs
    /\ term_height \in ViewHeights
    /\ current_path = Root
    /\ entries = read_dir_entries(fs, current_path, NoFail).entries
    /\ selected \in 0..(Len(entries) - 1)
    /\ delete_mode = None
    /\ history = <<>>
    /\ history_index = 0
    /\ prompt = Prompt_new
    /\ viewport_start \in 0..(Len(entries) - 1)
    /\ viewport_size = term_height - 2
    /\ modules_cache =
           recompute_display_data(
               [fs |-> fs, entries |-> entries, modules_cache |-> <<>>,
                max_widths |-> <<>>, recomputed |-> FALSE]).modules_cache
    /\ max_widths =
           recompute_display_data(
               [fs |-> fs, entries |-> entries, modules_cache |-> <<>>,
                max_widths |-> <<>>, recomputed |-> FALSE]).max_widths
    /\ typable = {}
    /\ faults = {}
    /\ last = [cmd |-> "Init", res |-> "Ok"]

NextViewport ==
    \/ MoveDown \/ MoveUp \/ GotoBottom \/ GotoTop
    \/ ScrollDown \/ ScrollUp \/ Click \/ Resize

SpecViewport == InitViewport /\ [][NextViewport]_vars

----------------------------------------------------------------------------
(* The prompt and the mouse: the three prompts with one name to type,     *)
(* every key a prompt can get, the wheel, the click and the resize, in    *)
(* every start directory and at every height                              *)

InitModal ==
    /\ Init
    /\ typable = {<<"b">>}
    /\ faults = {}

NextModal ==
    \/ BeginSearch \/ BeginCreate \/ BeginRename \/ MoveDown \/ MoveUp
    \/ PromptChar \/ PromptBackspace \/ PromptEnter \/ PromptEsc
    \/ PromptOtherKey
    \/ ScrollDown \/ ScrollUp \/ Click \/ MouseOther \/ Resize

SpecModal == InitModal /\ [][NextModal]_vars

----------------------------------------------------------------------------
(* Activation on a filesystem that other processes change and whose calls *)
(* may fail: the move keys, activate, click and go-back, in every start   *)
(* directory                                                              *)

InitActivate ==
    /\ Init
    /\ term_height = 4
    /\ typable = {}
    /\ faults = {"chdir", "list"}

NextActivate ==
    \/ MoveDown \/ MoveUp \/ Activate \/ Click \/ GoBack \/ Vanish

SpecActivate == InitActivate /\ [][NextActivate]_vars

----------------------------------------------------------------------------
(* The selection and the pending delete: keys and the mouse, in every     *)
(* start directory and at every height                                    *)

InitSelect ==
    /\ Init
    /\ typable = {}
    /\ faults = {}

NextSelect ==
    \/ Delete \/ MoveDown \/ MoveUp \/ GotoBottom \/ GotoTop \/ OtherKey
    \/ ScrollDown \/ ScrollUp \/ Click \/ MouseOther

SpecSelect == InitSelect /\ [][NextSelect]_vars

----------------------------------------------------------------------------
(* The pending delete (input.rs handle_delete, handle_key_event,          *)
(* handle_mouse_event; explorer.rs delete, handle_mouse_event)            *)

\* C1: a delete command deletes only when the pending-delete marker was
\* armed on the entry that is selected now; every other delete command (the
\* first on an entry, and one given while the marker is armed on another
\* entry) changes neither the filesystem, nor the entries, nor the history.
C1_TwoStepDelete ==
    [][(last'.cmd = "Delete" /\ delete_mode # Some(selected))
          => (fs' = fs /\ entries' = entries /\ history' = history)]_vars

\* C2: a key other than d, a scroll or a click, given while the marker is
\* armed, leaves the marker cleared and the filesystem as it was.
C2_OtherCommandClearsMarker ==
    [][(delete_mode # None /\ last'.cmd \notin {"Delete", "MouseOther"})
          => (delete_mode' = None /\ fs' = fs)]_vars

----------------------------------------------------------------------------
(* The journal cursor (input.rs handle_mode_action, handle_delete, undo,  *)
(* redo; explorer.rs handle_mode_action, delete, undo, redo)              *)

\* a step that records a new operation: a confirmed delete, a create commit
\* or a rename commit
Records ==
    /\ last'.cmd \in {"Delete", "Create", "Rename"}
    /\ history_index' = history_index + 1

\* C3: after every record of a new operation the history is the old
\* history cut to its first history_index operations followed by the new
\* one, and history_index is the length of the history.
C3_RecordTruncates ==
    [][Records =>
          /\ history' = Append(Truncate(history, history_index), Last(history'))
          /\ history_index' = Len(history')]_vars

\* C4: in every reachable state 0 <= history_index <= len(history).
C4_CursorInRange ==
    /\ 0 <= history_index
    /\ history_index <= Len(history)

\* C4 is exercised: a delete and a rename were recorded, both were undone
\* and the delete was redone
C4_Exercised ==
    /\ Len(history) = 2
    /\ At(history, 0).tag = "Delete"
    /\ At(history, 1).tag = "Rename"
    /\ history_index = 1
    /\ last.cmd = "Redo"
    /\ last.res = "Ok"

----------------------------------------------------------------------------
(* Failures (input.rs undo, redo, handle_delete; explorer.rs undo, redo,  *)
(* delete)                                                                *)

\* C5: an undo that returns an error leaves history and history_index as
\* they were before the undo command.
C5_FailedUndoKeepsJournal ==
    [][(last'.cmd = "Undo" /\ last'.res = "Err")
          => (history' = history /\ history_index' = history_index)]_vars

----------------------------------------------------------------------------
(* Round trips (file_ops.rs prepare_delete_operation,                     *)
(* restore_deleted_path; history.rs backup_dir; input.rs undo, redo)      *)

\* the operation a confirmed delete records holds what is at its path in
\* f: the bytes of a file; of a directory, every file below it with its
\* bytes and every directory below it
HoldsWhatIsAt(op, f) ==
    /\ op.tag = "Delete"
    /\ op.path \in DOMAIN f
    /\ op.is_dir = f[op.path].is_dir
    /\ IF op.is_dir
       THEN \E b \in op.dir_backup :
               LET below == Subtree(f, op.path) \ {op.path}
               IN  /\ DOMAIN b.files =
                          {StripPrefix(op.path, q) : q \in {x \in below : ~f[x].is_dir}}
                   /\ \A r \in DOMAIN b.files : b.files[r] = f[op.path \o r].data
                   /\ b.dirs =
                          {StripPrefix(op.path, q) : q \in {x \in below : f[x].is_dir}}
       ELSE op.content = Some(f[op.path].data)

\* what a Delete operation saved is in f: the saved bytes at the path of a
\* file; for a directory, the directory, every saved file at its relative
\* path with the saved bytes, and every saved subdirectory
SavedIsIn(op, f) ==
    IF op.is_dir
    THEN /\ op.path \in DOMAIN f
         /\ f[op.path].is_dir
         /\ \A b \in op.dir_backup :
               /\ \A r \in DOMAIN b.files :
                     /\ (op.path \o r) \in DOMAIN f
                     /\ f[op.path \o r] = File(b.files[r])
               /\ \A r \in b.dirs :
                     /\ (op.path \o r) \in DOMAIN f
                     /\ f[op.path \o r].is_dir
    ELSE \A d \in op.content :
            /\ op.path \in DOMAIN f
            /\ f[op.path] = File(d)

\* a step that deletes the selected entry and records it
ConfirmedDelete ==
    /\ last'.cmd = "Delete"
    /\ last'.res = "Ok"
    /\ history_index' = history_index + 1

\* a step that undoes a Delete operation without an error
UndoesDelete ==
    /\ last'.cmd = "Undo"
    /\ last'.res = "Ok"
    /\ history_index > 0
    /\ At(history, history_index - 1).tag = "Delete"

\* C8: delete then undo is a round trip: the recorded operation holds the
\* bytes of the deleted file, or the files and subdirectories of the
\* deleted directory, and undo puts the path and all of them back.
C8_DeleteUndoRoundTrip ==
    [][/\ ConfirmedDelete => HoldsWhatIsAt(Last(history'), fs)
       /\ UndoesDelete =>
             /\ At(history, history_index - 1).path \in DOMAIN fs'
             /\ SavedIsIn(At(history, history_index - 1), fs')]_vars

\* the result of a redo command given right after this step, on a
\* filesystem that does not fail
RedoNext == Handle(State', KeyEv("r", TRUE), NoFail)

\* r brings back the filesystem and the cursor of before this step
BringsBack(r) ==
    r.res = "Ok" => (r.s.fs = fs /\ r.s.history_index = history_index)

\* C9: an undo immediately followed by a redo, both without an error,
\* gives back the filesystem (paths and file content) and the
\* history_index of before the undo.
C9_UndoRedoRoundTrip ==
    [][(last'.cmd = "Undo" /\ last'.res = "Ok" /\ history_index > 0)
          => BringsBack(RedoNext)]_vars

\* C10: undo and redo leave every recorded operation as it is, saved
\* content and DirBackup included, and each undo of a Delete operation
\* restores what the operation saved.
C10_RedoKeepsBackup ==
    [][/\ last'.cmd \in {"Undo", "Redo"} => history' = history
       /\ UndoesDelete => SavedIsIn(At(history, history_index - 1), fs')]_vars

\* C10 is exercised: a Delete of a directory with saved files was undone
\* and has just been redone, and its path is gone again
C10_DeleteRedone ==
    /\ last.cmd = "Redo"
    /\ last.res = "Ok"
    /\ history_index > 0
    /\ At(history, history_index - 1).tag = "Delete"
    /\ \E b \in At(history, history_index - 1).dir_backup : DOMAIN b.files # {}
    /\ At(history, history_index - 1).path \notin DOMAIN fs

----------------------------------------------------------------------------
(* The search prompt (prompt.rs set_mode, handle_search, handle_input,    *)
(* update_matches, next_match)                                            *)

\* C11: whenever the prompt mode is Normal, the query is empty and the
\* match list is empty.
C11_NormalIsEmpty ==
    prompt.mode = "Normal" => (prompt.query = <<>> /\ prompt.matches = <<>>)

\* C12: whenever the prompt is in Search mode with an empty query the match
\* list is empty, and Enter on an empty Search query leaves the selection
\* where it was.
C12_EmptyQueryMatchesNothing ==
    [][/\ (prompt'.mode = "Search" /\ prompt'.query = <<>>)
             => prompt'.matches = <<>>
       /\ (last'.cmd = "Search" /\ prompt.query = <<>>)
             => selected' = selected]_vars

\* the indices i >= 1 of entries whose lowercase display name contains the
\* lowercase query
DisplayMatches(query) ==
    {i \in 1..(Len(entries) - 1) :
        Contains(ToLower(get_display_name(fs, At(entries, i), i)), ToLower(query))}

\* seq is the ascending sequence of the elements of S
AscendingOf(seq, S) ==
    /\ \A i \in 1..(Len(seq) - 1) : seq[i] < seq[i + 1]
    /\ {seq[i] : i \in 1..Len(seq)} = S

\* C13: after every keystroke in Search mode (a character or Backspace)
\* the match list is the ascending sequence of the indices i >= 1 whose
\* lowercase display name contains the lowercase query; index 0 is never
\* in it.
C13_MatchesByDisplayName ==
    [][(last'.cmd \in {"PromptChar", "PromptBackspace"} /\ prompt'.mode = "Search")
          => AscendingOf(prompt'.matches, DisplayMatches(prompt'.query))]_vars

\* C14: Enter in Search mode returns the mode to Normal; if the match list
\* of the query is not empty the selection becomes its first, lowest
\* match, and if it is empty the selection stays where it was.
C14_SearchCommit ==
    [][last'.cmd = "Search" =>
          /\ prompt'.mode = "Normal"
          /\ prompt'.matches # <<>> =>
                /\ selected' = At(prompt'.matches, 0)
                /\ \A i \in 1..Len(prompt'.matches) : selected' <= prompt'.matches[i]
          /\ prompt'.matches = <<>> => selected' = selected]_vars

\* C14 is exercised: a search for a name was committed with two matches
\* and the selection is on the first
C14_Committed ==
    /\ last.cmd = "Search"
    /\ prompt.mode = "Normal"
    /\ prompt.query # <<>>
    /\ Len(prompt.matches) >= 2
    /\ selected = At(prompt.matches, 0)

\* C15: next-match with a match list M that is not empty moves the match
\* cursor c to (c + 1) mod |M| and the selection to M[(c + 1) mod |M|],
\* leaving M as it is; a search commit leaves the cursor at 0; with an
\* empty match list next-match changes nothing.
C15_NextMatchCycles ==
    [][/\ last'.cmd = "NextMatch" =>
             IF prompt.matches # <<>>
             THEN /\ prompt'.current_match =
                        (prompt.current_match + 1) % Len(prompt.matches)
                  /\ prompt'.matches = prompt.matches
                  /\ selected' = At(prompt.matches, prompt'.current_match)
             ELSE /\ prompt' = prompt
                  /\ selected' = selected
                  /\ entries' = entries
                  /\ fs' = fs
                  /\ history' = history
                  /\ history_index' = history_index
       /\ last'.cmd = "Search" => prompt'.current_match = 0]_vars

\* C15 is exercised: next-match has just wrapped around a list of at least
\* two matches
C15_Wrapped ==
    /\ last.cmd = "NextMatch"
    /\ Len(prompt.matches) >= 2
    /\ prompt.current_match = 0
    /\ selected = At(prompt.matches, 0)

----------------------------------------------------------------------------
(* The create and rename prompts (prompt.rs handle_create, handle_rename, *)
(* set_mode; input.rs handle_prompt_input, handle_mode_action)            *)

\* the path a create commit is for, and whether it is for a directory
CreatePath == PathJoin(current_path, prompt.query)

CreateIsDir == EndsWithSlash(prompt.query)

\* the filesystem after this step holds node kind at path, every directory
\* on the way to it, and everything else exactly as before
MadeAt(path, is_dir) ==
    /\ path \in DOMAIN fs'
    /\ fs'[path].is_dir = is_dir
    /\ \A q \in Prefixes(path) \ {path} : q \in DOMAIN fs' /\ fs'[q].is_dir
    /\ \A q \in DOMAIN fs : q \in DOMAIN fs'
    /\ \A q \in DOMAIN fs' \ Prefixes(path) : q \in DOMAIN fs /\ fs'[q] = fs[q]

RenameFrom == At(entries, selected)

RenameTarget == PathJoin(Parent(RenameFrom), prompt.query)

\* the filesystem after this step holds at path to what it held at from,
\* and nothing at from
MovedTo(from, to) ==
    /\ Subtree(fs', from) = {}
    /\ \A q \in Subtree(fs, from) :
          /\ (to \o StripPrefix(from, q)) \in DOMAIN fs'
          /\ fs'[to \o StripPrefix(from, q)] = fs[q]

C18_EscOnlyLeaves ==
    [][last'.cmd = "PromptEsc" =>
          /\ prompt'.mode = "Normal"
          /\ prompt'.query = <<>>
          /\ fs' = fs
          /\ entries' = entries
          /\ selected' = selected
          /\ history' = history
          /\ history_index' = history_index]_vars

\* C18 is exercised: Esc has just closed a prompt in a run that has
\* recorded operations
C18_Escaped ==
    /\ last.cmd = "PromptEsc"
    /\ prompt = Prompt_new
    /\ history_index > 0

\* the target of this create or rename commit is there already
Collides ==
    \/ last'.cmd = "Create" /\ CreatePath \in DOMAIN fs
    \/ /\ last'.cmd = "Rename"
       /\ selected < Len(entries)
       /\ RenameTarget # RenameFrom
       /\ RenameTarget \in DOMAIN fs

\* C19: a create or rename whose target exists already returns an error
\* and records nothing.
C19_CollisionFails ==
    [][(prompt.query # <<>> /\ Collides)
          => (last'.res = "Err" /\ history' = history)]_vars

\* C20: after Enter in Create or Rename mode the prompt mode is Normal,
\* whether the filesystem call succeeded or failed.
C20_CommitLeavesPrompt ==
    [][last'.cmd \in {"Create", "Rename"} => prompt'.mode = "Normal"]_vars

----------------------------------------------------------------------------
(* The selection (state.rs new, explorer.rs new, input.rs handle_delete)  *)

\* C7: in every reachable state the selection is an index of entries,
\* 0 <= selected <= len(entries) - 1, and entries starts with the parent
\* entry "..".
C7_SelectionInRange ==
    /\ Len(entries) >= 1
    /\ Last(At(entries, 0)) = DotDot
    /\ 0 <= selected
    /\ selected <= Len(entries) - 1

----------------------------------------------------------------------------
(* The parent entry (input.rs handle_delete, explorer.rs delete)          *)

\* what lies outside the current directory's content: the directory itself,
\* its ancestors and their other content
Outside(f) == {p \in DOMAIN f : ~(IsPrefix(current_path, p) /\ p # current_path)}

\* C21: the parent entry (index 0) is never deleted: a delete command given
\* while the selection is 0 changes neither the filesystem, nor the entries,
\* nor the history; no delete command removes or changes anything outside
\* the content of the current directory; and no Delete operation with the
\* parent entry's path is recorded.
C21_ParentNeverDeleted ==
    [][last'.cmd = "Delete"
          => /\ selected = 0
                  => (fs' = fs /\ entries' = entries /\ history' = history)
             /\ \A p \in Outside(fs) : p \in DOMAIN fs' /\ fs'[p] = fs[p]
             /\ history' # history
                  => (/\ Last(history').tag = "Delete"
                      /\ Last(history').path # At(entries, 0)
                      /\ Resolve(Last(history').path) # Resolve(At(entries, 0)))]_vars

\* a delete command was given on the parent entry while the marker was armed
C21_DeleteAtParent ==
    /\ last.cmd = "Delete"
    /\ selected = 0
    /\ delete_mode # None

----------------------------------------------------------------------------
(* Nothing to undo, nothing to redo (input.rs undo, redo; explorer.rs     *)
(* undo, redo)                                                            *)

\* C22: an undo given when history_index = 0 and a redo given when
\* history_index = len(history) return without error and leave the
\* filesystem, the entries, the selection, the history and history_index
\* as they were.
C22_NothingToUndoOrRedo ==
    [][(\/ (last'.cmd = "Undo" /\ history_index = 0)
        \/ (last'.cmd = "Redo" /\ history_index = Len(history)))
          => /\ last'.res = "Ok"
             /\ fs' = fs
             /\ entries' = entries
             /\ selected' = selected
             /\ history' = history
             /\ history_index' = history_index]_vars

\* an undo was given before anything was recorded, after the selection moved
C22_UndoneNothing ==
    /\ last.cmd = "Undo"
    /\ history = <<>>
    /\ history_index = 0
    /\ selected # 1

----------------------------------------------------------------------------
(* The selection after undo and redo (explorer.rs undo, redo; input.rs    *)
(* undo, redo)                                                            *)

\* the operation an undo step undoes
UndoneOp == At(history, history_index - 1)

\* C23: after an undo of a Delete operation the selection is the index of
\* the restored path in the rebuilt entries if the path is listed there, and
\* after every undo and every redo that had an operation to act on the
\* selection is an index of the rebuilt entries; in both implementations.
C23_UndoRetargetsSelection ==
    [][/\ (/\ last'.cmd = "Undo" /\ last'.res = "Ok"
           /\ history_index > 0
           /\ UndoneOp.tag = "Delete"
           /\ Position(entries', UndoneOp.path) # None)
          => selected' = Unwrap(Position(entries', UndoneOp.path))
       /\ (\/ (last'.cmd = "Undo" /\ history_index > 0)
           \/ (last'.cmd = "Redo" /\ history_index < Len(history)))
          => (last'.res = "Ok" => selected' \in 0..(Len(entries') - 1))]_vars

----------------------------------------------------------------------------
(* The viewport (ui/mod.rs update_viewport, scroll_up, scroll_down)       *)

\* the events whose handler in InputHandler ends with
\* renderer.update_viewport(state.selected, state.entries.len())
UpdatesViewport == {"MoveDown", "MoveUp", "GotoBottom", "GotoTop", "Resize"}

\* the selection is a row of the window
InWindow(sel, start, size) == start <= sel /\ sel < start + size

\* C24: after a call of Renderer::update_viewport(selected, total) with
\* 0 <= selected < total and a window of at least one row,
\* start <= selected < start + size, and start = 0 if total < size.
C24_UpdateShowsSelection ==
    [][(/\ impl = "input"
        /\ last'.cmd \in UpdatesViewport
        /\ 0 <= selected' /\ selected' < Len(entries')
        /\ viewport_size' >= 1)
          => /\ InWindow(selected', viewport_start', viewport_size')
             /\ Len(entries') < viewport_size' => viewport_start' = 0]_vars

\* update_viewport pulled back a window that lay past the end of a listing
\* shorter than the window
C24_PulledBack ==
    /\ impl = "input"
    /\ last.cmd = "MoveUp"
    /\ Len(entries) < viewport_size
    /\ selected > 0
    /\ viewport_start = 0

----------------------------------------------------------------------------
(* The listing (file_ops.rs read_dir_entries)                             *)

\* the names of seq do not descend, case ignored
AscendingNames(seq) ==
    \A i \in 1..(Len(seq) - 1) :
        ~StrLess(ToLower(FileName(seq[i + 1])), ToLower(FileName(seq[i])))

\* listing is the parent entry, then the directories of dir by name, then
\* its files by name, and holds every child of dir once
ListsInOrder(f, dir, listing) ==
    /\ Len(listing) = 1 + Cardinality(Children(f, dir))
    /\ At(listing, 0) = dir \o <<DotDot>>
    /\ {listing[i] : i \in 2..Len(listing)} = Children(f, dir)
    /\ \E k \in 1..Len(listing) :
          /\ \A i \in 2..k : f[listing[i]].is_dir
          /\ \A i \in (k + 1)..Len(listing) : ~f[listing[i]].is_dir
          /\ AscendingNames(SubSeq(listing, 2, k))
          /\ AscendingNames(SubSeq(listing, k + 1, Len(listing)))

\* C25: the listing of a directory has the synthetic parent entry at index
\* 0, then all its directories in case-insensitive name order, then all its
\* files in case-insensitive name order, in whatever order read_dir yields
\* them; an empty directory lists as [..].
C25_ListingOrder ==
    \A dir \in DOMAIN fs : \A rev \in BOOLEAN :
        fs[dir].is_dir
          => LET listed == read_dir_entries(fs, dir, [fail |-> "none", rev |-> rev])
             IN  /\ listed.ok
                 /\ ListsInOrder(fs, dir, listed.entries)
                 /\ Children(fs, dir) = {} => listed.entries = <<dir \o <<DotDot>>>>

\* /B holds the files a and B and the empty directory b: /B lists as
\* [.., b/, a, B] and /B/b as [..]
C25_MixedCaseListed ==
    /\ << <<"B">>, <<"B">> >> \in DOMAIN fs
    /\ read_dir_entries(fs, << <<"B">> >>, NoFail).entries
         = << << <<"B">>, DotDot >>, << <<"B">>, <<"b">> >>,
              << <<"B">>, <<"a">> >>, << <<"B">>, <<"B">> >> >>
    /\ Children(fs, << <<"B">>, <<"b">> >>) = {}
    /\ read_dir_entries(fs, << <<"B">>, <<"b">> >>, NoFail).entries
         = << << <<"B">>, <<"b">>, DotDot >> >>

----------------------------------------------------------------------------
(* The window after every event (input.rs handle_normal_input,            *)
(* handle_mode_action, handle_delete; explorer.rs handle_key_event)       *)

\* C26: in every state reached after a handled input event the window holds
\* the selection, start <= selected < start + size, and does not reach past
\* the listing, start + size <= max(total_entries, size).
C26_WindowAfterEveryEvent ==
    last.cmd # "Init"
      => /\ InWindow(selected, viewport_start, viewport_size)
         /\ viewport_start + viewport_size <= Max(Len(entries), viewport_size)

----------------------------------------------------------------------------
(* Events while a prompt is open (input.rs handle_event, handle_key_event, *)
(* handle_mouse_event; explorer.rs run_loop)                               *)

\* the commits: Enter in Search, Create or Rename
Commits == {"Search", "Create", "Rename"}

\* C27: while a prompt mode is active, no key or mouse event other than an
\* Enter commit changes the selection, the current directory, the entries,
\* the history or the filesystem.
C27_PromptConsumesEvents ==
    [][(is_active(prompt) /\ last'.cmd \notin Commits)
          => /\ selected' = selected
             /\ current_path' = current_path
             /\ entries' = entries
             /\ history' = history
             /\ history_index' = history_index
             /\ fs' = fs]_vars

----------------------------------------------------------------------------
(* The window after a directory change (input.rs navigate, back;          *)
(* explorer.rs navigate; ui/mod.rs reset_viewport)                        *)

\* C28: after every change of the current directory, by activating a
\* directory (with the key or with a click) or by go-back, the start
\* offset of the viewport is 0.
C28_DirectoryChangeResetsWindow ==
    [][(/\ last'.cmd \in {"Activate", "Click", "GoBack"}
        /\ current_path' # current_path)
          => viewport_start' = 0]_vars

----------------------------------------------------------------------------
(* What update_viewport changes (ui/mod.rs update_viewport)               *)

\* C29: Renderer::update_viewport, called with the size unchanged, leaves
\* start as it was if start <= selected < start + size held before the call,
\* sets start = selected - size + 1 if selected >= start + size, and sets
\* start = selected if selected < start.
C29_UpdateOnlyRecenters ==
    [][(/\ impl = "input"
        /\ last'.cmd \in UpdatesViewport
        /\ viewport_size' = viewport_size)
          => /\ InWindow(selected', viewport_start, viewport_size)
                  => viewport_start' = viewport_start
             /\ selected' >= viewport_start + viewport_size
                  => viewport_start' = selected' - viewport_size + 1
             /\ selected' < viewport_start
                  => viewport_start' = selected']_vars

----------------------------------------------------------------------------
(* The wheel (input.rs handle_mouse_event; ui/mod.rs scroll_up,           *)
(* scroll_down)                                                           *)

\* C30: a wheel scroll handled by InputHandler with the Renderer moves
\* start by at most one row, down only if start < total - size and up only
\* if start > 0; a selection that was inside the window before the scroll is
\* inside the window after it; and a selection that is inside the new
\* window is unchanged.
C30_WheelScroll ==
    [][/\ (impl = "input" /\ last'.cmd = "ScrollDown")
            => /\ viewport_start' \in {viewport_start, viewport_start + 1}
               /\ viewport_start' = viewport_start + 1
                    => viewport_start < Len(entries) - viewport_size
       /\ (impl = "input" /\ last'.cmd = "ScrollUp")
            => /\ viewport_start' \in {viewport_start - 1, viewport_start}
               /\ viewport_start' = viewport_start - 1 => viewport_start > 0
       /\ (impl = "input" /\ last'.cmd \in {"ScrollDown", "ScrollUp"})
            => /\ entries' = entries
               /\ viewport_size' = viewport_size
               /\ InWindow(selected, viewport_start, viewport_size)
                    => InWindow(selected', viewport_start', viewport_size')
               /\ InWindow(selected, viewport_start', viewport_size')
                    => selected' = selected]_vars

\* the wheel moved the window down and took the selection with it
C30_SelectionFollowed ==
    /\ impl = "input"
    /\ last.cmd = "ScrollDown"
    /\ viewport_start > 0
    /\ selected = viewport_start
    /\ viewport_start + viewport_size <= Len(entries)

----------------------------------------------------------------------------
(* When the display cache is recomputed (state.rs recompute_display_data;  *)
(* input.rs and explorer.rs handle_mode_action)                            *)

\* the keys of Normal mode that only move the selection
SelectionKeys == {"j", "Down", "k", "Up", "G", "End", "g", "Home", "n"}

\* the events that only move the selection in this state: those keys, the
\* wheel and a click on a row that is not selected in Normal mode, and the
\* commit of a search in Search mode
SelectionEvents ==
    IF ~is_active(prompt)
    THEN {KeyEv(c, FALSE) : c \in SelectionKeys}
           \cup {MouseEv("ScrollDown", 0), MouseEv("ScrollUp", 0)}
           \cup {MouseEv("DownLeft", row) : row \in (0..(term_height - 1))
                                                      \ {selected - viewport_start}}
    ELSE IF prompt.mode = "Search" THEN {KeyEv("Enter", FALSE)}
    ELSE {}

\* the events that may replace the entries in this state
ListingEvents ==
    IF ~is_active(prompt)
    THEN {KeyEv(c, FALSE) : c \in {"Enter", "Right", "Left", "b", "d", "u"}}
           \cup {KeyEv("r", TRUE)}
    ELSE IF prompt.mode \in {"Create", "Rename"} THEN {KeyEv("Enter", FALSE)}
    ELSE {}

\* C31: the display cache is recomputed by every event that replaces the
\* entries (navigation, go-back, create, delete, rename, undo, redo) and by
\* no event that only moves the selection (the move keys, search commit,
\* next-match, click on a row, the wheel).
C31_CacheRecomputedOnlyOnNewListing ==
    running =>
        /\ \A event \in ListingEvents : \A env \in EnvsOf(Fails, BOOLEAN) :
              Handle(State, event, env).s.entries # entries
                => Handle(State, event, env).s.recomputed
        /\ \A event \in SelectionEvents :
              ~Handle(State, event, NoFail).s.recomputed

----------------------------------------------------------------------------
(* Activating a path that is gone (input.rs navigate; explorer.rs         *)
(* navigate; file_ops.rs open_file_in_editor)                             *)

\* the selected entry names a path that is no longer in the filesystem
SelectedVanished ==
    /\ selected < Len(entries)
    /\ ~Exists(fs, At(entries, selected))

\* C32: activating an entry whose path has vanished between listing and
\* activation is a no-op: the command returns without error and leaves
\* current_path, entries and selection unchanged.
C32_VanishedActivationIsNoOp ==
    [][(last'.cmd = "Activate" /\ SelectedVanished)
          => /\ last'.res = "Ok"
             /\ current_path' = current_path
             /\ entries' = entries
             /\ selected' = selected]_vars

----------------------------------------------------------------------------
(* The history under undo and redo (input.rs undo, redo; history.rs)      *)

\* C33: undo and redo never modify the recorded operations: the history
\* sequence, in its length and in every field of every operation, is the
\* same afterwards, and only history_index moves, by -1 on an undo and by +1
\* on a redo that succeeded with an operation to act on.
C33_UndoRedoKeepHistory ==
    [][last'.cmd \in {"Undo", "Redo"}
          => /\ history' = history
             /\ (last'.cmd = "Undo" /\ last'.res = "Ok" /\ history_index > 0)
                    => history_index' = history_index - 1
             /\ (last'.cmd = "Redo" /\ last'.res = "Ok"
                    /\ history_index < Len(history))
                    => history_index' = history_index + 1]_vars

\* a directory delete has been undone and its record, backup included, is
\* still the next one to redo
C33_UndoneDeleteKept ==
    /\ last = [cmd |-> "Undo", res |-> "Ok"]
    /\ history_index < Len(history)
    /\ At(history, history_index).tag = "Delete"
    /\ At(history, history_index).dir_backup # None

----------------------------------------------------------------------------
(* What a Delete record holds (file_ops.rs prepare_delete_operation)      *)

\* C34: every recorded Delete has its content present exactly when the
\* deleted path was a file, and its dir_backup present exactly when it was a
\* directory; that includes a file that can be deleted but whose bytes
\* cannot be read.
C34_DeleteRecordComplete ==
    \A i \in 1..Len(history) :
        history[i].tag = "Delete"
            => /\ (history[i].content # None) <=> ~history[i].is_dir
               /\ (history[i].dir_backup # None) <=> history[i].is_dir

----------------------------------------------------------------------------
(* The order of undo (input.rs handle_mode_action, undo; explorer.rs      *)
(* handle_mode_action)                                                    *)

\* C35: an undo reverts the most recently recorded operation that has not
\* been undone since: the operation that a record leaves under the cursor,
\* the one the next undo reverts, is the operation just recorded, also when
\* the record follows an undo.
C35_UndoTakesLatestRecord ==
    [][Records =>
          /\ history_index' > 0
          /\ history_index' <= Len(history')
          /\ At(history', history_index' - 1) = Last(history')]_vars

----------------------------------------------------------------------------
(* A commit and its undo (prompt.rs handle_create, handle_rename;         *)
(* file_ops.rs create_file, create_directory; input.rs undo)              *)

\* C36: a create or rename commit that records an operation, followed at
\* once by an undo that succeeds, leaves the filesystem exactly as it was
\* before the commit; that includes a create with missing intermediate
\* directories, a create over a path that exists and a rename onto a target
\* that exists.
C36_CommitThenUndoRestores ==
    (running /\ prompt.mode \in {"Create", "Rename"})
        => LET done == Handle(State, KeyEv("Enter", FALSE), NoFail)
               undone == Handle(done.s, KeyEv("u", FALSE), NoFail)
           IN  (/\ done.res = "Ok"
                /\ done.s.history_index = history_index + 1
                /\ undone.res = "Ok")
                   => undone.s.fs = fs

----------------------------------------------------------------------------
(* The target of a rename (input.rs 'r', handle_prompt_input,             *)
(* handle_mouse_event; prompt.rs handle_rename)                           *)

\* C37: the entry renamed by Enter in Rename mode is the entry that was
\* selected when Rename mode was entered, and never the parent entry: Rename
\* mode is never open on row 0, no key or mouse event given while it is open
\* moves the selection, and the rename that Enter records is the one of the
\* selected entry.
C37_RenameTargetFixed ==
    [][/\ prompt'.mode = "Rename" => selected' > 0
       /\ (prompt.mode = "Rename" /\ prompt'.mode = "Rename")
              => selected' = selected
       /\ (last'.cmd = "Rename" /\ history_index' = history_index + 1)
              => Last(history').old_path = At(entries, selected)]_vars

----------------------------------------------------------------------------
(* The entries and the directory (input.rs handle_delete,                 *)
(* handle_mode_action; file_ops.rs read_dir_entries)                      *)

\* what read_dir_entries can return for the current directory now: names
\* that differ in case only come in the order the system lists them
FreshListings ==
    {read_dir_entries(fs, current_path, env) : env \in EnvsOf({"none"}, BOOLEAN)}

\* C38: after every successfully handled event, with no change to the
\* filesystem from outside, entries is what a fresh listing of current_path
\* returns; in particular the removal in place at a delete gives the
\* sequence that reading the directory again gives.
C38_EntriesAreFreshListing ==
    (running /\ last.res = "Ok")
        => \E listed \in FreshListings : listed.ok /\ entries = listed.entries

----------------------------------------------------------------------------
(* A failed activation (input.rs navigate; explorer.rs navigate)          *)

\* C39: when the activation of a directory fails, at the change of
\* directory or at the listing, current_path, entries and selection are all
\* as they were, so that entries is never left beside a current_path it
\* was not listed from.
C39_FailedActivationKeepsState ==
    [][(/\ last'.cmd = "Activate"
        /\ last'.res = "Err"
        /\ selected < Len(entries)
        /\ IsDir(fs, At(entries, selected)))
          => /\ current_path' = current_path
             /\ entries' = entries
             /\ selected' = selected]_vars

----------------------------------------------------------------------------
(* The shape of the display cache (state.rs recompute_display_data;       *)
(* ui/mod.rs render)                                                      *)

\* C40: in every reachable state modules_cache has one row per entry, every
\* row has one fragment per display module, and max_widths has one element
\* per display module.
C40_CacheShape ==
    /\ Len(modules_cache) = Len(entries)
    /\ \A i \in 1..Len(modules_cache) :
           Len(modules_cache[i]) = Len(DisplayModules)
    /\ Len(max_widths) = Len(DisplayModules)

\* a directory was deleted and then entered again after an undo: the cache
\* followed the entries through a removal and two new listings
C40_CacheFollowed ==
    /\ last = [cmd |-> "Activate", res |-> "Ok"]
    /\ Len(history) = 1
    /\ history[1].tag = "Delete"
    /\ current_path = history[1].path
    /\ Len(modules_cache) = 1

=============================================================================
